---- MODULE Spec2Model ----
(***************************************************************************)
(* The spawn server of src/spawn/Server.cxx: SpawnServerProcess, its list  *)
(* of SpawnServerConnection objects, the SpawnServerChild records of each  *)
(* connection and the two response queues.  One action per reactor         *)
(* callback (socket event, pidfd event) and per environment step (a child  *)
(* process terminating).                                                   *)
(***************************************************************************)
EXTENDS Integers, Sequences, FiniteSets, TLC

(* ---------------------------------------------------------------- bounds *)

\* connections ever created (the initial one and those adopted by CONNECT)
MaxConns == 2
\* EXEC messages that reach SpawnChild, over all connections
MaxExec == 2

(* ------------------------------------------------------ program constants *)

\* items serialized into one response datagram
BatchMax == 64
\* W_EXITCODE(0xff, 0)
SpawnFailedStatus == 65280
SIGKILL == 9
SIGTERM == 15
\* upper limit of p.args.size() and p.env.size()
MaxArgs == 16384
\* capacity of UidGid::groups
MaxGroups == 32

Sockets == 1..MaxConns
Pids == 1..MaxExec
Ids == {7, 8}
Signos == {SIGKILL, SIGTERM}

Min(a, b) == IF a < b THEN a ELSE b

(* ----------------------------------------------------------------- state *)

VARIABLES
    connections,   \* SpawnServerProcess::connections, in list order
    conn,          \* per socket: the SpawnServerConnection's fields
    proc,          \* per pid: the child process and who watches its pidfd
    next_pid,      \* handle of the next process to be cloned
    next_socket,   \* handle of the next socket a client may pass in CONNECT
    wire,          \* per socket and response command: the items written to it
    quit,          \* SpawnServerProcess::Quit() has run: the zombie reaper is
                   \* disabled and the expire timer cancelled
    open_fds,      \* the file descriptors the server process has open, the
                   \* reactor's and the tmpfs manager's own aside
    tmpfs_manager, \* SpawnServerProcess::tmpfs_manager and its cache
    expire_timer,  \* SpawnServerProcess::expire_timer
    loop,          \* the EventLoop: its queues and where Run() is
    cgroup,        \* a run of CgroupState::EnableAllControllers
    list           \* the items and lists of the IntrusiveList test

vars ==
    <<connections, conn, proc, next_pid, next_socket, wire, quit, open_fds,
      tmpfs_manager, expire_timer, loop, cgroup, list>>

\* the fields of a SpawnServerConnection that does not exist (yet, or any more)
NoConnection ==
    [children |-> {}, exec_complete_queue |-> <<>>, exit_queue |-> <<>>,
     read |-> FALSE, write |-> FALSE]

\* A process handle that was never cloned.  state is where the process is:
\* "running", "zombie" (terminated, its pidfd readable, the SpawnServerChild
\* still watching), "killed" (handed to the registry with a signal) or
\* "reaped" (its exit collected); conn is the connection that spawned it;
\* id and watcher are the SpawnServerChild's id and who listens to the
\* pidfd; sig is the signal sent through the pidfd, 0 if none; leases are
\* the names of the tmpfs entries the SpawnServerChild holds a SharedLease
\* of, front first.  named is observation only: the names of the NAMED_TMPFS
\* mounts the process was spawned with.
NoProcess ==
    [state |-> "unused", conn |-> 0, id |-> 0, watcher |-> "none", sig |-> 0,
     leases |-> <<>>, named |-> {}]

\* The whole server as one value, so that a handler is a function of it and
\* handlers compose the way the calls in the code do.  thrown is the
\* exception in flight, if any.
State ==
    [connections |-> connections, conn |-> conn, proc |-> proc,
     next_pid |-> next_pid, next_socket |-> next_socket, wire |-> wire,
     quit |-> quit, open_fds |-> open_fds, tmpfs_manager |-> tmpfs_manager,
     expire_timer |-> expire_timer, thrown |-> "none"]

\* A file descriptor of the server: the socket of a connection
\* (UniqueSocketDescriptor socket), the pidfd of a process (held by the
\* PidfdEvent of a SpawnServerChild or of the registry), or the n-th
\* descriptor of the message being handled (UniqueFileDescriptor in the
\* message's list or moved from it into the PreparedChildProcess).
Fd(kind, n) == [kind |-> kind, n |-> n]

IsLive(s, c) == \E i \in 1..Len(s.connections) : s.connections[i] = c

\* The element of a one-element set.  {F(v) : v \in {x}} is how one
\* statement follows another: F applied to the state x that the statements
\* before it have left.
The(S) == CHOOSE r \in S : TRUE

Throw(s, what) == [s EXCEPT !.thrown = what]
Caught(s) == [s EXCEPT !.thrown = "none"]

(* ------------------------------------------------------- response queues *)

\* std::forward_list::emplace_front / push_front
PushFront(q, item) == <<item>> \o q

\* the socket of a connection, nothing written to it yet
NoWire == [EXEC_COMPLETE |-> <<>>, EXIT |-> <<>>]

\* SpawnServerConnection::SendExecComplete.  req and seq are observation
\* only: the EXEC request the item answers and the item's position in the
\* order of enqueuing on this queue.
SendExecComplete(s, c, id, error, req) ==
    LET q == s.conn[c].exec_complete_queue
        item == [id |-> id, error |-> error, req |-> req,
                 seq |-> Len(q) + Len(s.wire[c].EXEC_COMPLETE)]
    IN [s EXCEPT !.conn[c].write = IF q = <<>> THEN TRUE ELSE @,
                 !.conn[c].exec_complete_queue = PushFront(@, item)]

\* What SendExit would be if it never scheduled a write.
SendExitNoSchedule(s, c, id, status, req) ==
    LET q == s.conn[c].exit_queue
        item == [id |-> id, status |-> status, req |-> req,
                 seq |-> Len(q) + Len(s.wire[c].EXIT)]
    IN [s EXCEPT !.conn[c].exit_queue = PushFront(@, item)]

\* SpawnServerConnection::SendExit
SendExit(s, c, id, status, req) ==
    LET q == s.conn[c].exit_queue
        item == [id |-> id, status |-> status, req |-> req,
                 seq |-> Len(q) + Len(s.wire[c].EXIT)]
    IN [s EXCEPT !.conn[c].write = IF q = <<>> THEN TRUE ELSE @,
                 !.conn[c].exit_queue = PushFront(@, item)]

\* The loop of FlushExecCompleteQueue / FlushExitQueue: up to BatchMax items
\* are taken from the front and serialized in that order.
\* What BatchOf would be if the loop had no limit.
BatchOfAll(q) == q

BatchOf(q) == SubSeq(q, 1, Min(Len(q), BatchMax))
AfterBatch(q) == SubSeq(q, Min(Len(q), BatchMax) + 1, Len(q))

\* ::Send<1>(socket, s): the datagram is written, or sendmsg() fails (the
\* socket buffer is full, EWOULDBLOCK) and the error is thrown.
Send(s, c, cmd, items, ok) ==
    IF ok THEN [s EXCEPT !.wire[c][cmd] = @ \o items]
    ELSE Throw(s, "error")

\* SpawnServerConnection::FlushExecCompleteQueue
FlushExecCompleteQueue(s, c, ok) ==
    LET q == s.conn[c].exec_complete_queue
    IN IF q = <<>> THEN s
       ELSE Send([s EXCEPT !.conn[c].exec_complete_queue = AfterBatch(q)],
                 c, "EXEC_COMPLETE", BatchOf(q), ok)

\* SpawnServerConnection::FlushExitQueue
FlushExitQueue(s, c, ok) ==
    LET q == s.conn[c].exit_queue
    IN IF q = <<>> THEN s
       ELSE Send([s EXCEPT !.conn[c].exit_queue = AfterBatch(q)],
                 c, "EXIT", BatchOf(q), ok)

(* ----------------------------------------------------- the tmpfs manager *)

\* The TmpfsManager is not part of these sources; it is taken as described:
\* a cache keyed by name (the executable flag of a NAMED_TMPFS mount is
\* never set by HandleExecMessage, so the name is the key), each entry
\* counting its leases and remembering when the last one was dropped.

\* the names a NAMED_TMPFS mount asks for
TmpfsNames == {"t1", "t2"}

\* std::chrono::minutes{2} of ScheduleExpireTimer, in ticks of one minute
ExpirePeriod == 2
\* the idle threshold of the cache, in ticks
IdleThreshold == 2
\* the ticks an idle entry is counted for
MaxIdle == 6

\* An entry of the cache: mounts is how many tmpfs filesystems are mounted
\* under the name, refs the reference count, idle the ticks since a lease
\* was last dropped (since the mount, if none was), and busy whether an
\* unmount has failed since.
NoTmpfs == [mounts |-> 0, refs |-> 0, idle |-> 0, busy |-> FALSE]

\* std::optional<TmpfsManager> of a server without a mount namespace
NoTmpfsManager == [present |-> FALSE, items |-> [n \in TmpfsNames |-> NoTmpfs]]

\* a CoarseTimerEvent that is not pending; due is the ticks until it fires
NoTimer == [pending |-> FALSE, due |-> 0]

\* What MakeTmpfs would be if it never looked into the cache.
MakeTmpfsNoReuse(s, name) ==
    [s EXCEPT !.tmpfs_manager.items[name] =
        [@ EXCEPT !.mounts = @ + 1, !.refs = @ + 1, !.busy = FALSE]]

\* TmpfsManager::MakeTmpfs: the cached entry of the name, or a tmpfs newly
\* mounted; the SharedLease returned counts as one more reference.
MakeTmpfs(s, name) ==
    [s EXCEPT !.tmpfs_manager.items[name] =
        [@ EXCEPT !.mounts = IF @ = 0 THEN 1 ELSE @, !.refs = @ + 1,
                  !.busy = FALSE]]

\* ~SharedLease: one reference less, and the time of the release is kept.
DropLease(s, name) ==
    [s EXCEPT !.tmpfs_manager.items[name] =
        [@ EXCEPT !.refs = @ - 1, !.idle = 0]]

\* the destructor of a std::forward_list<SharedLease>
RECURSIVE DropLeases(_, _)
DropLeases(s, leases) ==
    IF leases = <<>> THEN s
    ELSE DropLeases(DropLease(s, Head(leases)), Tail(leases))

\* TmpfsManager::Expire: every entry without a reference whose last release
\* is longer ago than the idle threshold is unmounted and forgotten; if the
\* unmount fails (ok[n] is whether that of n succeeds) the entry stays.
Expire(s, ok) ==
    LET items == s.tmpfs_manager.items
    IN [s EXCEPT !.tmpfs_manager.items =
            [n \in TmpfsNames |->
                IF items[n].mounts > 0 /\ items[n].refs = 0
                   /\ items[n].idle > IdleThreshold
                THEN (IF ok[n] THEN NoTmpfs ELSE [items[n] EXCEPT !.busy = TRUE])
                ELSE items[n]]]

\* SpawnServerProcess::ScheduleExpireTimer
ScheduleExpireTimer(s) ==
    [s EXCEPT !.expire_timer = [pending |-> TRUE, due |-> ExpirePeriod]]

\* What OnExpireTimer would be if it did not schedule the timer again.
OnExpireTimerOnce(s, ok) ==
    [Expire(s, ok) EXCEPT !.expire_timer = NoTimer]

\* SpawnServerProcess::OnExpireTimer
OnExpireTimer(s, ok) == ScheduleExpireTimer(Expire(s, ok))

(* -------------------------------------------------------------- children *)

\* ~SpawnServerChild: the leases of the record are dropped.  (Its PidfdEvent
\* has been moved to the registry or is closed by the caller's step.)
DeleteChild(s, p) ==
    [DropLeases(s, s.proc[p].leases) EXCEPT !.proc[p].leases = <<>>]

\* What the kill would be if the signal were sent and the record's watcher
\* left listening for its connection.
RegistryKillKeepsListener(s, p, signo) ==
    [s EXCEPT !.proc[p] = [@ EXCEPT !.state = "killed", !.id = 0, !.sig = signo]]

\* ChildProcessRegistry::Kill(std::move(pidfd), signo): the registry takes
\* the pidfd watcher over from the child record and sends the signal.
RegistryKill(s, p, signo) ==
    [s EXCEPT !.proc[p] = [@ EXCEPT !.state = "killed", !.id = 0,
                                    !.watcher = "registry", !.sig = signo]]

RECURSIVE KillAll(_, _, _)
KillAll(s, ps, signo) ==
    IF ps = {} THEN s
    ELSE LET p == CHOOSE x \in ps : TRUE
         IN KillAll(DeleteChild(RegistryKill(s, p, signo), p), ps \ {p}, signo)

\* What OnChildProcessExit would be without its SendExit: the record is
\* dropped and the client is told nothing.
OnChildProcessExitSilent(s, c, id, status, p) ==
    DeleteChild([s EXCEPT !.conn[c].children = @ \ {p},
                          !.proc[p] = [@ EXCEPT !.state = "reaped", !.id = 0,
                                                !.watcher = "none"],
                          !.open_fds = @ \ {Fd("pidfd", p)}], p)

\* What OnChildProcessExit would be if it reported the exit twice.
OnChildProcessExitTwice(s, c, id, status, p) ==
    SendExit(SendExit(OnChildProcessExitSilent(s, c, id, status, p),
                      c, id, status, p),
             c, id, status, p)

\* What OnChildProcessExit would be if it queued the EXIT and left the
\* record, with its pidfd and its leases, where it is.
OnChildProcessExitKeepsRecord(s, c, id, status, p) ==
    SendExit([s EXCEPT !.proc[p] = [@ EXCEPT !.state = "reaped"]], c, id, status, p)

\* SpawnServerConnection::OnChildProcessExit: the record leaves the map and
\* is deleted, then the EXIT is queued.
OnChildProcessExit(s, c, id, status, p) ==
    SendExit(DeleteChild([s EXCEPT !.conn[c].children = @ \ {p},
                                   !.proc[p] = [@ EXCEPT !.state = "reaped", !.id = 0,
                                                         !.watcher = "none"],
                                   !.open_fds = @ \ {Fd("pidfd", p)}], p),
             c, id, status, p)

(* ----------------------------------------------------------- connections *)

\* SpawnServerProcess::AddConnection and the SpawnServerConnection
\* constructor: the descriptor moved in is the connection's socket.
AddConnection(s, sock) ==
    [s EXCEPT !.connections = Append(@, sock),
              !.conn[sock] = [NoConnection EXCEPT !.read = TRUE],
              !.open_fds = @ \cup {Fd("socket", sock)}]

\* What ~SpawnServerConnection would be if it dropped the child records
\* without signalling the children.
DestroyConnectionNoKill(s, c) ==
    [s EXCEPT !.conn[c] = NoConnection, !.wire[c] = NoWire,
              !.open_fds = @ \ {Fd("socket", c)}]

\* ~SpawnServerConnection: every child still in the map is killed with SIGTERM.
\* The socket is closed, and what was written to it goes with it.
DestroyConnection(s, c) ==
    [KillAll(s, s.conn[c].children, SIGTERM) EXCEPT
        !.conn[c] = NoConnection,
        !.wire[c] = NoWire,
        !.open_fds = @ \ {Fd("socket", c)}]

\* SpawnServerProcess::Quit
Quit(s) == [s EXCEPT !.quit = TRUE, !.expire_timer = NoTimer]

\* What RemoveConnection would be if it never called Quit().
RemoveConnectionNoQuit(s, c) ==
    [DestroyConnection(s, c) EXCEPT
        !.connections = SelectSeq(@, LAMBDA x : x # c)]

\* SpawnServerProcess::RemoveConnection
RemoveConnection(s, c) ==
    The({ IF s1.connections = <<>> THEN Quit(s1) ELSE s1 :
            s1 \in { [DestroyConnection(s, c) EXCEPT
                        !.connections = SelectSeq(@, LAMBDA x : x # c)] } })

(* ------------------------------------------------------ the EXEC payload *)

\* An EXEC payload is the request id, the name and a sequence of fields.  A
\* field is [tag, ok, n, uid]: its tag byte, whether its body is complete
\* (a string without its terminator or a cut-off integer is not), a number
\* (the group count of UID_GID) and, for UID_GID, whether the configuration
\* allows the uid/gid.

\* tags whose case takes the next descriptor of the message
FdTags ==
    {"EXEC_FD", "STDIN", "STDOUT", "STDERR", "RETURN_STDERR", "RETURN_PIDFD",
     "RETURN_CGROUP", "CONTROL"}

\* tags whose case reads a body (strings, integers, booleans) and stores it
BodyTags ==
    {"EXEC_FUNCTION", "EXEC_PATH", "UMASK", "STDERR_PATH", "PID_NS_NAME",
     "NETWORK_NS_NAME", "PIVOT_ROOT", "MOUNT_TMP_TMPFS", "DIR_MODE", "HOSTNAME", "MAPPED_UID", "PRIORITY", "CHROOT",
     "CHDIR", "HOOK_INFO"}

\* tags whose case reads a body and takes the next descriptor as well
FdBodyTags == {"FD_BIND_MOUNT", "FD_BIND_MOUNT_FILE"}

\* tags whose case makes a Mount and inserts it after mount_tail
MountTags ==
    {"MOUNT_TMPFS", "MOUNT_NAMED_TMPFS", "BIND_MOUNT", "BIND_MOUNT_FILE",
     "WRITE_FILE"} \cup FdBodyTags

\* tags whose case sets a flag and reads nothing
FlagTags ==
    {"STDOUT_IS_STDIN", "STDERR_IS_STDIN", "TTY", "USER_NS", "PID_NS",
     "CGROUP_NS", "NETWORK_NS", "IPC_NS", "MOUNT_PROC", "WRITABLE_PROC",
     "MOUNT_DEV", "MOUNT_PTS", "BIND_MOUNT_PTS", "MOUNT_ROOT_TMPFS",
     "SCHED_IDLE", "IOPRIO_IDLE", "NO_NEW_PRIVS"}

\* an entry of UidGid::groups that nothing was written to
Unset == -1

\* a PreparedChildProcess as the parser starts with it; groups is
\* UidGid::groups, the i-th group of a UID_GID field being written as i
EmptyPrepared ==
    [uid_gid |-> "empty", cgroup |-> FALSE, cgroup_attrs |-> {}, args |-> 0,
     env |-> 0, groups |-> [i \in 1..MaxGroups |-> Unset],
     mounts |-> <<>>, mount_tmp_tmpfs |-> "", rlimits |-> {}]

\* SpawnPayload::ReadString / ReadT / ReadInt on a field body: the body is
\* there, or the payload ends early and MalformedSpawnPayloadError is thrown.
ReadBody(st, f) == IF f.ok THEN st ELSE [st EXCEPT !.bad = TRUE]

\* What SpawnFdList::Borrow / Get would be if the iterator did not move on.
TakeFdSame(st, tag) ==
    IF st.fdi >= st.nfds THEN [st EXCEPT !.bad = TRUE]
    ELSE [st EXCEPT !.taken = Append(@, [tag |-> tag, fd |-> st.fdi + 1])]

\* SpawnFdList::Borrow / Get: throws if the iterator is at the end, else
\* returns the descriptor the iterator is at and moves the iterator on.  The
\* descriptors of a message are numbered 1..nfds in the order of the list;
\* taken is which case was given which.
TakeFd(st, tag) ==
    IF st.fdi >= st.nfds THEN [st EXCEPT !.bad = TRUE]
    ELSE [st EXCEPT !.fdi = @ + 1,
                    !.taken = Append(@, [tag |-> tag, fd |-> st.fdi + 1])]

\* What Read(SpawnPayload &, UidGid &) would be without its last statement.
ReadUidGidNoSentinel(st, f) ==
    IF ~f.ok \/ f.n > MaxGroups THEN [st EXCEPT !.bad = TRUE]
    ELSE [st EXCEPT !.p.uid_gid = f.uid,
                    !.p.groups = [i \in 1..MaxGroups |-> IF i <= f.n THEN i ELSE @[i]]]

\* Read(SpawnPayload &, UidGid &)
ReadUidGid(st, f) ==
    IF ~f.ok \/ f.n > MaxGroups THEN [st EXCEPT !.bad = TRUE]
    ELSE [st EXCEPT !.p.uid_gid = f.uid,
                    !.p.groups = [i \in 1..MaxGroups |->
                                    IF i <= f.n THEN i
                                    ELSE IF i = f.n + 1 THEN 0
                                    ELSE @[i]]]

\* What the mount cases would be if they inserted at the head of the list.
MountFieldFront(st, f) ==
    IF ~f.ok THEN [st EXCEPT !.bad = TRUE]
    ELSE LET st1 == IF f.tag \in FdBodyTags THEN TakeFd(st, f.tag) ELSE st
         IN IF st1.bad THEN st1
            ELSE [st1 EXCEPT !.p.mounts =
                                <<[type |-> f.tag, target |-> f.target,
                                   source |-> f.source,
                                   source_fd |-> f.tag \in FdBodyTags]>> \o @]

\* The cases MOUNT_TMPFS, MOUNT_NAMED_TMPFS, BIND_MOUNT, BIND_MOUNT_FILE,
\* FD_BIND_MOUNT, FD_BIND_MOUNT_FILE and WRITE_FILE: the body is read (and
\* for the two FD_ kinds the next descriptor taken), and the Mount is
\* inserted into p.ns.mount.mounts after mount_tail, which then is the new
\* Mount.  source_fd tells whether the Mount has a source descriptor, which
\* only the FD_ kinds give it.
MountField(st, f) ==
    IF ~f.ok THEN [st EXCEPT !.bad = TRUE]
    ELSE LET st1 == IF f.tag \in FdBodyTags THEN TakeFd(st, f.tag) ELSE st
         IN IF st1.bad THEN st1
            ELSE [st1 EXCEPT !.p.mounts =
                                Append(@, [type |-> f.tag, target |-> f.target,
                                           source |-> f.source,
                                           source_fd |-> f.tag \in FdBodyTags])]

\* What the cases CGROUP_SESSION, CGROUP_SET and CGROUP_XATTR would be if
\* they did not look at p.cgroup.
CgroupAttrAnywhere(st, f) ==
    ReadBody([st EXCEPT !.p.cgroup_attrs = @ \cup {f.tag}], f)

\* The cases CGROUP_SESSION, CGROUP_SET and CGROUP_XATTR: without a cgroup
\* they throw, else the session, assignment or attribute is stored;
\* cgroup_attrs is which of the three kinds were stored.
CgroupAttr(st, f) ==
    IF ~st.p.cgroup THEN [st EXCEPT !.bad = TRUE]
    ELSE ReadBody([st EXCEPT !.p.cgroup_attrs = @ \cup {f.tag}], f)

\* the number of entries of ResourceLimits::values
RLIM_NLIMITS == 16

\* Read(SpawnPayload &, ResourceLimits &): the index byte is read and
\* values[index] is filled from the payload, the index being compared with
\* nothing.  With an index outside the array the behaviour is undefined:
\* the 16 bytes are written behind the array ("overrun"), or a library
\* built with assertions stops the process at the subscript ("abort").
\* p.rlimits are the entries of the array written to; ub is "none" as long
\* as nothing undefined has happened.
ReadRlimit(st, f) ==
    IF ~f.ok THEN [st EXCEPT !.bad = TRUE]
    ELSE IF f.index < RLIM_NLIMITS THEN [st EXCEPT !.p.rlimits = @ \cup {f.index}]
    ELSE [st EXCEPT !.ub = f.ub]

\* One turn of the switch in SpawnServerConnection::HandleExecMessage.  A tag
\* byte with no case label falls out of the switch and the loop goes on.
ExecField(st, f) ==
    CASE f.tag \in FdTags -> TakeFd(st, f.tag)
      [] f.tag = "MOUNT_TMP_TMPFS" ->
            ReadBody([st EXCEPT !.p.mount_tmp_tmpfs = f.target], f)
      [] f.tag = "RLIMIT" -> ReadRlimit(st, f)
      [] f.tag \in BodyTags -> ReadBody(st, f)
      [] f.tag \in MountTags -> MountField(st, f)
      [] f.tag \in FlagTags -> st
      [] f.tag = "ARG" ->
            IF st.p.args >= MaxArgs THEN [st EXCEPT !.bad = TRUE]
            ELSE ReadBody([st EXCEPT !.p.args = @ + 1], f)
      [] f.tag = "SETENV" ->
            IF st.p.env >= MaxArgs THEN [st EXCEPT !.bad = TRUE]
            ELSE ReadBody([st EXCEPT !.p.env = @ + 1], f)
      [] f.tag = "UID_GID" -> ReadUidGid(st, f)
      [] f.tag = "CGROUP" ->
            IF st.p.cgroup THEN [st EXCEPT !.bad = TRUE]
            ELSE ReadBody([st EXCEPT !.p.cgroup = TRUE], f)
      [] f.tag \in {"CGROUP_SESSION", "CGROUP_SET", "CGROUP_XATTR"} -> CgroupAttr(st, f)
      [] OTHER -> st

\* The turns of the while loop for a run of k fields equal to f: the turns
\* for the first half of the run, then those for the rest.
RECURSIVE ExecRun(_, _, _)
ExecRun(st, f, k) ==
    IF k = 0 \/ st.bad \/ st.ub = "abort" THEN st
    ELSE IF k = 1 THEN ExecField(st, f)
    ELSE ExecRun(ExecRun(st, f, k \div 2), f, k - k \div 2)

\* The while loop of HandleExecMessage; it ends at the first exception.
RECURSIVE ExecFields(_, _)
ExecFields(st, fields) ==
    IF fields = <<>> \/ st.bad \/ st.ub = "abort" THEN st
    ELSE ExecFields(ExecRun(st, Head(fields), Head(fields).rep), Tail(fields))

\* The parsing part of HandleExecMessage: id and name, then the fields.
ParseExec(m) ==
    IF ~m.hdr_ok
    THEN [p |-> EmptyPrepared, fdi |-> 0, nfds |-> m.nfds, taken |-> <<>>, bad |-> TRUE,
          ub |-> "none"]
    ELSE ExecFields([p |-> EmptyPrepared, fdi |-> 0, nfds |-> m.nfds, taken |-> <<>>,
                     bad |-> FALSE, ub |-> "none"],
                    m.fields)

(* ------------------------------------------------------------- spawning *)

\* What the first two statements of SpawnChild would be if the hook were
\* not asked.
VerifiedUidGidNoHook(p, env) ==
    IF p.uid_gid # "empty"
    THEN (IF p.uid_gid = "denied" THEN "throw" ELSE p.uid_gid)
    ELSE IF env.default_empty THEN "throw" ELSE "default"

\* The first two statements of SpawnChild: the uid/gid the child is spawned
\* with, or "throw".  A uid/gid of the message is "allowed" or "denied" by
\* SpawnConfig::Verify, which is asked only if the hook does not accept the
\* request; without a uid/gid config.default_uid_gid is taken, unless empty.
VerifiedUidGid(p, env) ==
    IF p.uid_gid # "empty"
    THEN (IF ~env.hook /\ p.uid_gid = "denied" THEN "throw" ELSE p.uid_gid)
    ELSE IF env.default_empty THEN "throw" ELSE "default"

\* What SpawnServerConnection::SpawnChild meets outside the message: env is
\* [hook, default_empty, clone_ok]: the answer of SpawnServerProcess::Verify
\* (FALSE without a hook), whether config.default_uid_gid is empty, and
\* whether SpawnChildProcess (and the tmpfs manager before it) succeeds.
\* The result is whether SpawnChild throws.
SpawnThrows(p, env) ==
    \/ VerifiedUidGid(p, env) = "throw"
    \/ ~env.clone_ok

\* GetFullMessage(std::current_exception()): the text of what was thrown
FullMessage == "error"

\* What PrepareNamedTmpfs would be if it resolved the first NAMED_TMPFS only.
RECURSIVE PrepareFirstNamedTmpfs(_, _, _)
PrepareFirstNamedTmpfs(s, mounts, p) ==
    IF mounts = <<>> THEN s
    ELSE IF Head(mounts).type = "MOUNT_NAMED_TMPFS"
    THEN [MakeTmpfs(s, Head(mounts).source) EXCEPT
            !.proc[p].leases = PushFront(@, Head(mounts).source)]
    ELSE PrepareFirstNamedTmpfs(s, Tail(mounts), p)

\* PrepareNamedTmpfs: every NAMED_TMPFS of the mount list that has no
\* source_fd (HandleExecMessage gives it none) is resolved by MakeTmpfs and its
\* lease put in front of the list that the new SpawnServerChild will hold,
\* which is kept here in the record of the process to be, p.  The
\* descriptors MakeTmpfs returns are closed when SpawnChild returns.
RECURSIVE PrepareNamedTmpfs(_, _, _)
PrepareNamedTmpfs(s, mounts, p) ==
    IF mounts = <<>> THEN s
    ELSE PrepareNamedTmpfs(
            IF Head(mounts).type = "MOUNT_NAMED_TMPFS" /\ ~Head(mounts).source_fd
            THEN [MakeTmpfs(s, Head(mounts).source) EXCEPT
                    !.proc[p].leases = PushFront(@, Head(mounts).source)]
            ELSE s,
            Tail(mounts), p)

\* the names of the NAMED_TMPFS mounts of a mount list
NamedIn(mounts) ==
    {mounts[i].source : i \in {j \in 1..Len(mounts) :
                                 mounts[j].type = "MOUNT_NAMED_TMPFS"}}

\* SpawnChild between the uid/gid and SpawnChildProcess: the tmpfs manager,
\* if the server has one, resolves the mounts.
Prepared(s, mounts, p) ==
    IF s.tmpfs_manager.present
    THEN [PrepareNamedTmpfs(s, mounts, p) EXCEPT !.proc[p].named = NamedIn(mounts)]
    ELSE s

\* What the unwinding would be if the leases taken for the request stayed
\* held after the exception.
UnwoundLeaky(s, p, prep, env) ==
    IF VerifiedUidGid(prep, env) = "throw" THEN s
    ELSE [Prepared(s, prep.mounts, p) EXCEPT !.proc[p].named = {}]

\* SpawnChild left by an exception: the lease list goes out of scope.  If it
\* was the uid/gid that threw, the list was still empty.
Unwound(s, p, prep, env) ==
    IF VerifiedUidGid(prep, env) = "throw" THEN s
    ELSE [DeleteChild(Prepared(s, prep.mounts, p), p) EXCEPT !.proc[p].named = {}]

\* What InsertChild would be if the record were put into the map only later,
\* after the handler has returned.
InsertChildLater(s, c, id, p) ==
    [s EXCEPT !.proc[p] = [@ EXCEPT !.state = "running", !.conn = c, !.id = id,
                                    !.watcher = "child", !.sig = 0],
              !.open_fds = @ \cup {Fd("pidfd", p)}]

\* SpawnServerConnection::SpawnChild past its last throwing call:
\* SpawnChildProcess has returned the pidfd of the new process, the new
\* SpawnServerChild watches it and is inserted into the map.
InsertChild(s, c, id, p) ==
    [s EXCEPT !.proc[p] = [@ EXCEPT !.state = "running", !.conn = c, !.id = id,
                                    !.watcher = "child", !.sig = 0],
              !.conn[c].children = @ \cup {p},
              !.open_fds = @ \cup {Fd("pidfd", p)}]

\* What the try block would be without the SendExit of its catch clause.
SpawnAndReplyNoExit(s, c, id, p, env) ==
    LET req == s.next_pid
        s1 == [s EXCEPT !.next_pid = @ + 1]
    IN IF ~SpawnThrows(p, env)
       THEN SendExecComplete(InsertChild(Prepared(s1, p.mounts, req), c, id, req),
                             c, id, "", req)
       ELSE SendExecComplete(Unwound(s1, req, p, env), c, id, FullMessage, req)

\* The try block that ends HandleExecMessage.
SpawnAndReply(s, c, id, p, env) ==
    LET req == s.next_pid
        s1 == [s EXCEPT !.next_pid = @ + 1]
    IN IF ~SpawnThrows(p, env)
       THEN SendExecComplete(InsertChild(Prepared(s1, p.mounts, req), c, id, req),
                             c, id, "", req)
       ELSE SendExit(SendExecComplete(Unwound(s1, req, p, env), c, id,
                                      FullMessage, req),
                     c, id, SpawnFailedStatus, req)

\* ReceiveMessageBuffer<8192, ...>: the bytes of payload one receive can hold
PayloadMax == 8192

\* the command byte, the id and the terminator of the name
HeaderBytes == 6

\* The bytes of the smallest encoding of a field: the tag byte alone, or the
\* tag byte and the terminator of an empty string (or one byte of another
\* body), or the tag byte, uid, gid, the group count and the groups.
MinBytes(f) ==
    CASE f.tag \in FdTags \cup FlagTags -> 1
      [] f.tag = "UID_GID" -> 10 + 4 * f.n
      [] OTHER -> 2

\* What of a sequence of fields is in the first room bytes: the fields that
\* fit, and if the cut falls into a field, that field with its body cut off.
RECURSIVE Cut(_, _)
Cut(fields, room) ==
    IF fields = <<>> THEN <<>>
    ELSE LET f == Head(fields)
             b == MinBytes(f)
             k == Min(f.rep, room \div b)
             left == room - k * b
         IN IF k = f.rep THEN <<f>> \o Cut(Tail(fields), left)
            ELSE (IF k > 0 THEN <<[f EXCEPT !.rep = k]>> ELSE <<>>)
                 \o (IF left > 0 THEN <<[f EXCEPT !.rep = 1, !.ok = FALSE]>> ELSE <<>>)

\* What recvmsg() leaves in the payload buffer of a message of the smallest
\* encoding: all of it if it fits, else its first PayloadMax bytes.
Received(m) ==
    IF m.cmd # "EXEC" \/ ~m.hdr_ok THEN m
    ELSE [m EXCEPT !.fields = Cut(@, PayloadMax - HeaderBytes)]

\* SpawnServerConnection::HandleExecMessage
HandleExecMessage(s, c, m, env) ==
    LET st == ParseExec(m)
    IN IF st.ub = "abort" THEN Throw(s, "abort")
       ELSE IF st.bad THEN Throw(s, "malformed")
       ELSE SpawnAndReply(s, c, m.id, st.p, env)

(* ------------------------------------------------------------- messages *)

\* children.find(id): the records of the map whose key is id
Find(s, c, id) == {p \in s.conn[c].children : s.proc[p].id = id}

\* What HandleOneKill would be if it sent the signal and left the record in
\* the map, still listening to the pidfd.
HandleOneKillKeepsRecord(s, c, id, signo) ==
    LET found == Find(s, c, id)
    IN IF found = {} THEN s
       ELSE LET p == CHOOSE x \in found : \A y \in found : y <= x
            IN [s EXCEPT !.proc[p].sig = signo]

\* What HandleOneKill would be if it sent SIGTERM whatever the pair says.
HandleOneKillSigterm(s, c, id, signo) ==
    LET found == Find(s, c, id)
    IN IF found = {} THEN s
       ELSE LET p == CHOOSE x \in found : \A y \in found : y <= x
            IN DeleteChild(RegistryKill([s EXCEPT !.conn[c].children = @ \ {p}],
                                        p, SIGTERM), p)

\* SpawnServerConnection::HandleOneKill, for a pair that was read whole
HandleOneKill(s, c, id, signo) ==
    LET found == Find(s, c, id)
    IN IF found = {} THEN s
       ELSE LET p == CHOOSE x \in found : \A y \in found : y <= x
            IN DeleteChild(RegistryKill([s EXCEPT !.conn[c].children = @ \ {p}],
                                        p, signo), p)

\* The loop of HandleKillMessage: one HandleOneKill per pair; bytes that are
\* left over after the last whole pair make the next read throw.
RECURSIVE KillPairs(_, _, _, _)
KillPairs(s, c, pairs, tail) ==
    IF pairs = <<>> THEN (IF tail THEN Throw(s, "malformed") ELSE s)
    ELSE KillPairs(HandleOneKill(s, c, Head(pairs).id, Head(pairs).signo),
                   c, Tail(pairs), tail)

\* SpawnServerConnection::HandleKillMessage
HandleKillMessage(s, c, m) ==
    IF m.nfds # 0 THEN Throw(s, "malformed")
    ELSE KillPairs(s, c, m.pairs, m.tail)

\* What the CONNECT case would be if it did not count the descriptors.
HandleConnectAnyFds(s, m) ==
    IF m.rest # 0 THEN Throw(s, "malformed")
    ELSE [AddConnection([s EXCEPT !.open_fds = @ \ {Fd("msg", 1)}], s.next_socket)
            EXCEPT !.next_socket = @ + 1]

\* The CONNECT case of HandleMessage: rest is the number of payload bytes
\* after the command byte; the descriptor passed is the socket next_socket.
\* fds.GetSocket() moves the one descriptor of the message out of the list.
HandleConnect(s, m) ==
    IF m.rest # 0 \/ m.nfds # 1 THEN Throw(s, "malformed")
    ELSE [AddConnection([s EXCEPT !.open_fds = @ \ {Fd("msg", 1)}], s.next_socket)
            EXCEPT !.next_socket = @ + 1]

\* SpawnServerConnection::HandleMessage: a command byte with no case label
\* falls out of the switch.
HandleMessage(s, c, m, env) ==
    CASE m.cmd = "CONNECT" -> HandleConnect(s, m)
      [] m.cmd = "EXEC" -> HandleExecMessage(s, c, m, env)
      [] m.cmd = "KILL" -> HandleKillMessage(s, c, m)
      [] OTHER -> s

\* ReceiveMessage: the descriptors that come with the message are open in
\* the server from now on, owned by result.fds.
ReceiveFds(s, m) ==
    [s EXCEPT !.open_fds = @ \cup {Fd("msg", k) : k \in 1..m.nfds}]

\* What the destructors would be if they closed nothing.
CloseMessageFdsNone(s) == s

\* The destructors that run when HandleMessage is left, by return or by
\* exception: of the PreparedChildProcess (descriptors taken with Get), and
\* of the SpawnFdList (the descriptors borrowed and those not taken).
CloseMessageFds(s) ==
    [s EXCEPT !.open_fds = {f \in @ : f.kind # "msg"}]

\* SpawnServerConnection::ReceiveAndHandle.  rx is what ReceiveMessage does:
\* it returns the message m, returns an empty payload ("eof") or throws.
ReceiveAndHandle(s, c, rx, m, env) ==
    CASE rx = "error" -> Throw(s, "error")
      [] rx = "eof" -> RemoveConnection(s, c)
      [] OTHER ->
            LET s1 == CloseMessageFds(
                        HandleMessage(ReceiveFds(s, m), c, Received(m), env))
            IN IF s1.thrown = "malformed" THEN Caught(s1) ELSE s1

\* The WRITE branch of OnSocketEvent
OnWritable(s, c, ok1, ok2) ==
    The({ IF s2.thrown # "none" THEN s2
          ELSE IF s2.conn[c].exec_complete_queue = <<>> /\ s2.conn[c].exit_queue = <<>>
               THEN [s2 EXCEPT !.conn[c].write = FALSE]
               ELSE s2 :
            s2 \in { IF s1.thrown # "none" THEN s1 ELSE FlushExitQueue(s1, c, ok2) :
                        s1 \in {FlushExecCompleteQueue(s, c, ok1)} } })

\* What OnSocketEvent would be if HANGUP were not looked at.
OnSocketEventNoHangup(s, c, events, ok1, ok2, rx, m, env) ==
    IF "ERROR" \in events THEN RemoveConnection(s, c)
    ELSE The({ IF s2.thrown # "none" THEN RemoveConnection(Caught(s2), c) ELSE s2 :
                s2 \in { IF s1.thrown = "none" /\ "READ" \in events
                         THEN ReceiveAndHandle(s1, c, rx, m, env) ELSE s1 :
                            s1 \in { IF "WRITE" \in events
                                     THEN OnWritable(s, c, ok1, ok2) ELSE s } } })

\* SpawnServerConnection::OnSocketEvent
OnSocketEvent(s, c, events, ok1, ok2, rx, m, env) ==
    IF "ERROR" \in events THEN RemoveConnection(s, c)
    ELSE IF "HANGUP" \in events THEN RemoveConnection(s, c)
    ELSE The({ IF s2.thrown # "none" THEN RemoveConnection(Caught(s2), c) ELSE s2 :
                s2 \in { IF s1.thrown = "none" /\ "READ" \in events
                         THEN ReceiveAndHandle(s1, c, rx, m, env) ELSE s1 :
                            s1 \in { IF "WRITE" \in events
                                     THEN OnWritable(s, c, ok1, ok2) ELSE s } } })

(* ------------------------------------------------- what a client may send *)

Msg(cmd) ==
    [cmd |-> cmd, rest |-> 0, nfds |-> 0, hdr_ok |-> TRUE, id |-> 0,
     fields |-> <<>>, pairs |-> <<>>, tail |-> FALSE]

\* A field of an EXEC payload, or with rep > 1 a run of rep equal fields: its
\* tag, whether its body can be read, the group count and the uid of a
\* UID_GID, the target path of a mount and its source (the name of a
\* NAMED_TMPFS), the index byte of an RLIMIT and, should that be outside the
\* array, what the build at hand makes of it.
Field(tag) ==
    [tag |-> tag, ok |-> TRUE, n |-> 0, uid |-> "allowed", rep |-> 1, target |-> "/a",
     source |-> "t1", index |-> 0, ub |-> "overrun"]

ConnectMsgs ==
    {[Msg("CONNECT") EXCEPT !.rest = r, !.nfds = n] : r \in {0, 1}, n \in {0, 1, 2}}

\* field sequences an EXEC payload is made of here, with the number of
\* descriptors each message carries
ExecBodies ==
    { [fields |-> <<Field("EXEC_PATH"), Field("ARG")>>, nfds |-> 0],
      [fields |-> <<Field("EXEC_PATH"), Field("STDIN"), Field("TTY")>>, nfds |-> 1],
      [fields |-> <<Field("EXEC_PATH"), Field("STDIN")>>, nfds |-> 0],
      [fields |-> <<Field("EXEC_PATH"), [Field("UID_GID") EXCEPT !.n = MaxGroups]>>,
       nfds |-> 0],
      [fields |-> <<Field("EXEC_PATH"), [Field("UID_GID") EXCEPT !.uid = "denied"]>>,
       nfds |-> 0],
      [fields |-> <<[Field("UID_GID") EXCEPT !.n = MaxGroups + 1]>>, nfds |-> 0],
      [fields |-> <<Field("EXEC_PATH"), [Field("ARG") EXCEPT !.ok = FALSE]>>, nfds |-> 0],
      [fields |-> <<Field("CGROUP"), Field("CGROUP_SESSION")>>, nfds |-> 0],
      [fields |-> <<Field("CGROUP_SET"), Field("CGROUP")>>, nfds |-> 0],
      [fields |-> <<Field("EXEC_PATH"), Field("UNKNOWN"), Field("ARG")>>, nfds |-> 0] }

ExecMsgs ==
    {[Msg("EXEC") EXCEPT !.id = i, !.fields = b.fields, !.nfds = b.nfds] :
        i \in Ids, b \in ExecBodies}
    \cup {[Msg("EXEC") EXCEPT !.hdr_ok = FALSE]}

Pair(i, signo) == [id |-> i, signo |-> signo]

KillMsgs ==
    {[Msg("KILL") EXCEPT !.pairs = <<Pair(i, signo)>>, !.tail = tl] :
        i \in Ids, signo \in Signos, tl \in BOOLEAN}
    \cup {[Msg("KILL") EXCEPT !.pairs = <<Pair(i, SIGTERM), Pair(j, SIGKILL)>>] :
            i \in Ids, j \in Ids}
    \cup {[Msg("KILL") EXCEPT !.pairs = <<Pair(i, SIGTERM)>>, !.nfds = 1] : i \in Ids}
    \cup {Msg("KILL")}

\* a first byte that is none of the request commands
OtherMsgs == {Msg("OTHER")}

Msgs == ConnectMsgs \cup ExecMsgs \cup KillMsgs \cup OtherMsgs

\* the surroundings of SpawnChild: all is well, or one thing stands in the way
GoodEnv == [hook |-> TRUE, default_empty |-> FALSE, clone_ok |-> TRUE]
Envs ==
    {GoodEnv, [GoodEnv EXCEPT !.hook = FALSE], [GoodEnv EXCEPT !.clone_ok = FALSE],
     [GoodEnv EXCEPT !.hook = FALSE, !.default_empty = TRUE]}

HasUnknownTag(m) ==
    \E i \in 1..Len(m.fields) :
        m.fields[i].tag \notin
            FdTags \cup BodyTags \cup MountTags \cup FlagTags
            \cup {"ARG", "SETENV", "UID_GID", "CGROUP", "CGROUP_SESSION",
                  "CGROUP_SET", "CGROUP_XATTR"}

(* --------------------------------------------------------- the EventLoop *)

\* src/event/Loop.cxx.  The loop is the record l: pc is where Run() is,
\* threaded whether the build has HAVE_THREADED_EVENT_LOOP, again, quit and
\* busy the members of these names, defer the list of pending DeferEvents
\* (each a task number), idle the length of the list idle, inject the list
\* of pending InjectEvents, sockets and ready the lists sockets and
\* ready_sockets, polled the SocketEvents registered with the poll backend.
\* mutex tells whether the loop thread holds the mutex, wake whether the
\* wake fd is readable, waking how many threads have left AddInject's
\* critical section and are about to write the wake fd, running the
\* InjectEvent whose callback is running and ret where HandleInject was
\* called from.  callbacks names what the callbacks of the program at hand
\* do; scheduled counts the tasks ever deferred, ran is the set of those
\* that were run, last is the SocketEvent dispatched last, leftover are the
\* events that were in ready_sockets when Run() last returned and redone
\* those of them dispatched since, both forgotten at the next Wait(), and
\* received are the events of the last Wait() until the socket loop is
\* over; these are observation only.

\* deferred tasks scheduled in one run of the loop model
MaxTasks == 3
\* SocketEvents of the program, other than the wake event
MaxReady == 2
\* threads that call AddInject
MaxThreads == 2

SocketNames == <<"s1", "s2", "s3">>
SocketEvents == {SocketNames[i] : i \in 1..MaxReady}
InjectEvents == {"i1", "i2"}

\* the elements of a list
InList(q) == {q[i] : i \in 1..Len(q)}

\* the list without the elements of a set
ListWithout(q, S) == SelectSeq(q, LAMBDA x : x \notin S)

\* EventLoop::AddFD, the poll backend accepting the descriptor
AddFD(l, e) == [l EXCEPT !.polled = @ \cup {e}, !.sockets = Append(@, e)]

\* What RemoveFD would be if it took the event out of the list sockets only.
RemoveFDFromSockets(l, e) ==
    [l EXCEPT !.sockets = ListWithout(@, {e}), !.polled = @ \ {e}]

\* EventLoop::RemoveFD: event.unlink() takes the event out of the list it
\* is in, whichever that is
RemoveFD(l, e) ==
    [l EXCEPT !.sockets = ListWithout(@, {e}), !.ready = ListWithout(@, {e}),
              !.polled = @ \ {e}]

\* EventLoop::AbandonFD: the same without the poll backend, whose
\* registration ends with the descriptor the caller has closed
AbandonFD(l, e) ==
    [l EXCEPT !.sockets = ListWithout(@, {e}), !.ready = ListWithout(@, {e}),
              !.polled = @ \ {e}]

\* an EventLoop after its constructor and, in the threaded build, the first
\* statements of Run(), which schedule the wake event
NewLoop(threaded) ==
    [pc |-> "top", threaded |-> threaded, callbacks |-> "tasks",
     again |-> FALSE, quit |-> FALSE, busy |-> TRUE,
     defer |-> <<>>, idle |-> 0, inject |-> <<>>,
     sockets |-> IF threaded THEN <<"wake">> ELSE <<>>, ready |-> <<>>,
     polled |-> IF threaded THEN {"wake"} ELSE {},
     mutex |-> FALSE, wake |-> FALSE, waking |-> 0, running |-> "none",
     ret |-> "again", scheduled |-> 0, ran |-> {}, last |-> "none",
     leftover |-> {}, redone |-> {}, received |-> <<>>]

\* EventLoop::AddDefer, called by DeferEvent::Schedule
AddDefer(l) ==
    [l EXCEPT !.defer = Append(@, l.scheduled + 1),
              !.scheduled = @ + 1,
              !.again = IF l.threaded THEN TRUE ELSE @]

\* EventLoop::AddIdle
AddIdle(l) ==
    [l EXCEPT !.idle = @ + 1, !.again = IF l.threaded THEN TRUE ELSE @]

\* EventLoop::Insert of a timer
InsertTimer(l) == [l EXCEPT !.again = TRUE]

\* EventLoop::Break
Break(l) == [l EXCEPT !.quit = TRUE]

\* What a callback may do to the loop that invoked it; eff is [defers, idle,
\* timer, brk, add, remove, abandon]: how many DeferEvents it schedules,
\* whether it schedules an idle event, whether it schedules a timer, whether
\* it calls Break(), and the SocketEvents it schedules, cancels and abandons.
RECURSIVE Deferring(_, _)
Deferring(l, k) == IF k = 0 THEN l ELSE Deferring(AddDefer(l), k - 1)

RECURSIVE Adding(_, _)
Adding(l, S) ==
    IF S = {} THEN l
    ELSE LET e == CHOOSE x \in S : TRUE IN Adding(AddFD(l, e), S \ {e})

RECURSIVE Removing(_, _)
Removing(l, S) ==
    IF S = {} THEN l
    ELSE LET e == CHOOSE x \in S : TRUE IN Removing(RemoveFD(l, e), S \ {e})

RECURSIVE Abandoning(_, _)
Abandoning(l, S) ==
    IF S = {} THEN l
    ELSE LET e == CHOOSE x \in S : TRUE IN Abandoning(AbandonFD(l, e), S \ {e})

Callback(l, eff) ==
    The({ IF eff.brk THEN Break(l4) ELSE l4 :
            l4 \in { Adding(Abandoning(Removing(l3, eff.remove), eff.abandon), eff.add) :
            l3 \in { IF eff.timer THEN InsertTimer(l2) ELSE l2 :
                        l2 \in { IF eff.idle THEN AddIdle(l1) ELSE l1 :
                                    l1 \in {Deferring(l, eff.defers)} } } } })

NoEffect ==
    [defers |-> 0, idle |-> FALSE, timer |-> FALSE, brk |-> FALSE,
     add |-> {}, remove |-> {}, abandon |-> {}]

Effects ==
    [defers : 0..2, idle : BOOLEAN, timer : BOOLEAN, brk : BOOLEAN,
     add : {{}}, remove : {{}}, abandon : {{}}]

\* callbacks that schedule, cancel and abandon SocketEvents and call Break()
SocketEffects ==
    [defers : {0}, idle : {FALSE}, timer : {FALSE}, brk : BOOLEAN,
     add : SUBSET SocketEvents, remove : SUBSET SocketEvents,
     abandon : SUBSET SocketEvents]

\* callbacks that call Break() or do nothing to the loop
InjectEffects ==
    [defers : {0}, idle : {FALSE}, timer : {FALSE}, brk : BOOLEAN,
     add : {{}}, remove : {{}}, abandon : {{}}]

\* the callbacks of the program at hand that stay within the bounds of the
\* model; an event is cancelled or abandoned only if it is scheduled, and
\* scheduled only if it is not
EffectsAt(l) ==
    CASE l.callbacks = "tasks" ->
            {eff \in Effects : /\ l.scheduled + eff.defers <= MaxTasks
                               /\ eff.idle => l.idle = 0}
      [] l.callbacks = "sockets" ->
            {eff \in SocketEffects :
                /\ eff.remove \cup eff.abandon \subseteq l.polled
                /\ eff.remove \cap eff.abandon = {}
                /\ eff.add \cap l.polled = {}}
      [] OTHER -> InjectEffects

\* 'return' or 'break' in Run(): in the threaded build the AtScopeExit
\* cancels the wake event.
Returned(l) ==
    The({ [l1 EXCEPT !.pc = "returned", !.leftover = InList(l1.ready), !.redone = {}] :
            l1 \in {IF l.threaded THEN RemoveFD(l, "wake") ELSE l} })

\* The head of the do loop: again = false, HandleTimers() (due tells
\* whether a timer is due, whose callback then runs), if (quit) break.
HandleTimers(l, due, eff) ==
    The({ IF l2.quit THEN Returned(l2) ELSE [l2 EXCEPT !.pc = "deferred"] :
            l2 \in { IF due THEN Callback(l1, eff) ELSE l1 :
                        l1 \in {[l EXCEPT !.again = FALSE]} } })

\* What RunDeferred would be if it ran one DeferEvent only.
RunDeferredOne(l, eff) ==
    IF l.defer # <<>> /\ ~l.quit
    THEN [Callback([l EXCEPT !.defer = Tail(@), !.ran = @ \cup {Head(l.defer)}],
                   eff) EXCEPT !.pc = "idle"]
    ELSE IF l.quit THEN Returned(l) ELSE [l EXCEPT !.pc = "idle"]

\* One turn of the while loop of EventLoop::RunDeferred, and past it the
\* 'if (quit) break' of Run(): the first DeferEvent is unlinked and run.
RunDeferred(l, eff) ==
    IF l.defer # <<>> /\ ~l.quit
    THEN Callback([l EXCEPT !.defer = Tail(@), !.ran = @ \cup {Head(l.defer)}], eff)
    ELSE IF l.quit THEN Returned(l) ELSE [l EXCEPT !.pc = "idle"]

\* EventLoop::RunOneIdle and the 'continue' that follows if it ran one; if
\* it ran none, the threaded build locks the mutex and calls HandleInject()
RunOneIdle(l, eff) ==
    IF l.idle = 0
    THEN (IF l.threaded THEN [l EXCEPT !.pc = "inject", !.mutex = TRUE, !.ret = "again"]
          ELSE [l EXCEPT !.pc = "again"])
    ELSE [Callback([l EXCEPT !.idle = @ - 1], eff) EXCEPT !.pc = "cond"]

\* One turn of the while loop of EventLoop::HandleInject as far as the
\* callback: the first InjectEvent is popped and the mutex unlocked.  Past
\* the loop, OnSocketReady returns (and unlocks), or Run() goes on to
\* 'if (again)' with the mutex still locked.
HandleInject(l) ==
    IF l.inject # <<>> /\ ~l.quit
    THEN [l EXCEPT !.inject = Tail(@), !.running = Head(l.inject),
                   !.mutex = FALSE, !.pc = "inject_run"]
    ELSE IF l.ret = "sockets" THEN [l EXCEPT !.pc = "sockets", !.mutex = FALSE]
    ELSE [l EXCEPT !.pc = "again"]

\* m.Run() in HandleInject and the end of the ScopeUnlock: the callback has
\* run and the mutex is locked again
RunInject(l, eff) ==
    [Callback([l EXCEPT !.running = "none"], eff) EXCEPT !.mutex = TRUE, !.pc = "inject"]

\* 'if (again) continue;' and, in the threaded build, 'busy = false' and the
\* end of the lock
CheckAgain(l) ==
    IF l.again THEN [l EXCEPT !.pc = "cond", !.mutex = FALSE]
    ELSE [l EXCEPT !.pc = "empty", !.mutex = FALSE,
                   !.busy = IF l.threaded THEN FALSE ELSE @]

\* 'if (IsEmpty()) return;' and 'if (ready_sockets.empty())': empty is what
\* IsEmpty() returns, which can be true only if the lists are empty.
CheckEmpty(l, empty) ==
    IF empty THEN Returned(l)
    ELSE [l EXCEPT !.pc = IF l.ready = <<>> THEN "waiting"
                          ELSE IF l.threaded THEN "busy" ELSE "sockets"]

\* EventLoop::Wait returns: each of the events received, in the order of
\* the poll backend, is moved from sockets to the end of ready_sockets
Wait(l, evs) ==
    [l EXCEPT !.sockets = ListWithout(@, InList(evs)),
              !.ready = ListWithout(@, InList(evs)) \o evs,
              !.leftover = {}, !.redone = {}, !.received = evs,
              !.pc = IF l.threaded THEN "busy" ELSE "sockets"]

\* the threaded build past the wait: busy = true, under the mutex
SetBusy(l) == [l EXCEPT !.busy = TRUE, !.pc = "sockets"]

\* EventLoop::OnSocketReady, the callback of the wake event: the wake fd is
\* read, the mutex locked and HandleInject() called
OnSocketReady(l) ==
    [l EXCEPT !.wake = FALSE, !.mutex = TRUE, !.pc = "inject", !.ret = "sockets"]

\* What the socket loop would be if it did not look at quit.
InvokeSocketWhateverQuit(l, eff) ==
    IF l.ready # <<>>
    THEN LET e == Head(l.ready)
             l1 == [l EXCEPT !.ready = Tail(@), !.sockets = Append(@, e), !.last = e,
                             !.redone = @ \cup ({e} \cap l.leftover)]
         IN IF e = "wake" THEN OnSocketReady(l1) ELSE Callback(l1, eff)
    ELSE [l EXCEPT !.pc = "post", !.received = <<>>]

\* One turn of the loop that invokes the sockets: the first event of
\* ready_sockets is moved to the end of sockets and dispatched
InvokeSocket(l, eff) ==
    IF l.ready # <<>> /\ ~l.quit
    THEN LET e == Head(l.ready)
             l1 == [l EXCEPT !.ready = Tail(@), !.sockets = Append(@, e), !.last = e,
                             !.redone = @ \cup ({e} \cap l.leftover)]
         IN IF e = "wake" THEN OnSocketReady(l1) ELSE Callback(l1, eff)
    ELSE [l EXCEPT !.pc = "post", !.received = <<>>]

\* RunPost(), whatever it invokes
RunPost(l, eff) == [Callback(l, eff) EXCEPT !.pc = "cond"]

\* while (!quit)
CheckQuit(l) == IF l.quit THEN Returned(l) ELSE [l EXCEPT !.pc = "top"]

\* EventLoop::Run is called (again): in the threaded build the wake event
\* is scheduled; quit = false
Run(l) ==
    IF l.threaded THEN [AddFD(l, "wake") EXCEPT !.quit = FALSE, !.pc = "top"]
    ELSE [l EXCEPT !.quit = FALSE, !.pc = "top"]

\* What AddInject would be if it never woke the loop.
AddInjectNoWake(l, d) ==
    IF d \in InList(l.inject) THEN l
    ELSE [l EXCEPT !.inject = Append(@, d), !.again = TRUE]

\* EventLoop::AddInject from another thread, as far as the end of the lock:
\* must_wake is remembered in waking
AddInject(l, d) ==
    IF d \in InList(l.inject) THEN l
    ELSE [l EXCEPT !.inject = Append(@, d), !.again = TRUE,
                   !.waking = IF ~l.busy /\ l.inject = <<>> THEN @ + 1 ELSE @]

\* 'if (must_wake) wake_fd.Write()' of a thread that has left the lock
WakeFdWrite(l) == [l EXCEPT !.wake = TRUE, !.waking = @ - 1]

(* ----------------------------------------------------------- CgroupState *)

\* src/spawn/CgroupState.cxx.  cgroup is the run of EnableAllControllers:
\* contents is what cgroup.controllers holds, a sequence of controller names,
\* spaces and a newline; failing is the file operation that fails, if any;
\* ops are the file operations done so far, in order; thrown tells whether
\* an exception left the function.

Controllers == {"cpu", "io", "memory", "cpuset"}

\* the name of a controller as text
Text(name) == <<name>>

\* EnableAllControllers has not been called
NoCgroup == [contents |-> <<>>, failing |-> "none", ops |-> <<>>, thrown |-> FALSE,
             done |-> FALSE]

\* contents.back() == '\n': remove_suffix(1)
StripNewline(contents) ==
    IF contents # <<>> /\ contents[Len(contents)] = "\n"
    THEN SubSeq(contents, 1, Len(contents) - 1)
    ELSE contents

\* IterableSplitString(contents, ' '): the pieces between the spaces, empty
\* ones included; the text without a space is one piece
RECURSIVE SplitAt(_, _)
SplitAt(text, piece) ==
    IF text = <<>> THEN <<piece>>
    ELSE IF Head(text) = " " THEN <<piece>> \o SplitAt(Tail(text), <<>>)
    ELSE SplitAt(Tail(text), piece \o <<Head(text)>>)

IterableSplitString(text) == IF text = <<>> THEN <<>> ELSE SplitAt(text, <<>>)

\* ForEachController: the names the callback is called with, in order
ForEachController(contents) ==
    IF contents = <<>> THEN <<>>
    ELSE SelectSeq(IterableSplitString(StripNewline(contents)),
                   LAMBDA name : name # <<>>)

\* The callback of EnableAllControllers applied to the names in turn: the
\* text of subtree_control.
RECURSIVE SubtreeControl(_)
SubtreeControl(names) ==
    IF names = <<>> THEN <<>>
    ELSE LET rest == SubtreeControl(SubSeq(names, 1, Len(names) - 1))
             name == names[Len(names)]
         IN IF name = Text("cpuset") THEN rest
            ELSE (IF rest # <<>> THEN rest \o <<" ">> ELSE rest) \o <<"+">> \o name

\* a file operation: MakeDirectory or a write of data to a file of a group
Op(call, group, path, data) ==
    [call |-> call, group |-> group, path |-> path, data |-> data]

\* The operation is tried: it is logged, and if it is the failing one and
\* must not fail, the exception is thrown.  Nothing is done after a throw.
Do(g, op, must) ==
    IF g.thrown THEN g
    ELSE [g EXCEPT !.ops = Append(@, op),
                   !.thrown = must /\ g.failing = op.path]

\* What EnableAllControllers would be if it wrote subtree_control before it
\* had moved the process into the leaf group.
EnableAllControllersEarly(g) ==
    LET sc == SubtreeControl(ForEachController(g.contents))
        g1 == Do(g, Op("WriteFile", "group", "cgroup.subtree_control", sc), TRUE)
        g2 == Do(g1, Op("MakeDirectory", "group", "_", <<>>), TRUE)
        g3 == Do(g2, Op("WriteFile", "_", "cgroup.procs", <<"0">>), TRUE)
        g4 == Do(g3, Op("TryWriteExistingFile", "_", "cpu.weight", <<"10000">>), FALSE)
        g5 == Do(g4, Op("TryWriteExistingFile", "_", "io.weight", <<"10000">>), FALSE)
        g6 == Do(g5, Op("TryWriteExistingFile", "_", "io.bfq.weight", <<"1000">>), FALSE)
    IN [g6 EXCEPT !.done = TRUE]

\* CgroupState::EnableAllControllers
EnableAllControllers(g) ==
    LET g1 == Do(g, Op("MakeDirectory", "group", "_", <<>>), TRUE)
        g2 == Do(g1, Op("WriteFile", "_", "cgroup.procs", <<"0">>), TRUE)
        sc == SubtreeControl(ForEachController(g.contents))
        g3 == Do(g2, Op("WriteFile", "group", "cgroup.subtree_control", sc), TRUE)
        g4 == Do(g3, Op("TryWriteExistingFile", "_", "cpu.weight", <<"10000">>), FALSE)
        g5 == Do(g4, Op("TryWriteExistingFile", "_", "io.weight", <<"10000">>), FALSE)
        g6 == Do(g5, Op("TryWriteExistingFile", "_", "io.bfq.weight", <<"1000">>), FALSE)
    IN [g6 EXCEPT !.done = TRUE]

(* --------------------------------------------------------- IntrusiveList *)

\* util/IntrusiveList.hxx is not part of these sources; the list is taken
\* as test/util/TestIntrusiveList.cxx uses and observes it: a ring of nodes
\* linked both ways through the head node of the list, an item's
\* SafeLinkIntrusiveListHook having a null next pointer while it is in no
\* list.  list is [node, alive]: the next and prev pointer of every node,
\* and which of the two IntrusiveList objects exist.

\* CharItem items[]{'a', 'b', 'c'}
CharItems == {"a", "b", "c"}
\* IntrusiveList<Item> list, list2
Lists == {"list", "list2"}

\* a hook that is in no list
Unlinked == [next |-> "nullptr", prev |-> "nullptr"]

\* the items constructed, list constructed and empty, list2 not yet
NewList ==
    [node |-> [n \in CharItems \cup Lists |->
                 IF n = "list" THEN [next |-> n, prev |-> n] ELSE Unlinked],
     alive |-> [h \in Lists |-> h = "list"]]

\* IntrusiveListNode::Connect
Connect(l, a, b) == [l EXCEPT !.node[a].next = b, !.node[b].prev = a]

\* SafeLinkIntrusiveListHook::is_linked
is_linked(l, i) == l.node[i].next # "nullptr"

\* IntrusiveList::empty
list_empty(l, h) == l.node[h].next = h

\* IntrusiveList::insert(p, t): t goes in before the node p
insert(l, p, t) ==
    The({ Connect(l1, t, p) : l1 \in {Connect(l, l.node[p].prev, t)} })

\* IntrusiveList::push_back: insert(end(), t)
push_back(l, h, t) == insert(l, h, t)

\* IntrusiveList::push_front: insert(begin(), t)
push_front(l, h, t) == insert(l, l.node[h].next, t)

\* What unlink would be with a plain IntrusiveListHook, which leaves the
\* pointers of the item as they are.
unlink_plain(l, i) == Connect(l, l.node[i].prev, l.node[i].next)

\* SafeLinkIntrusiveListHook::unlink
unlink(l, i) ==
    [Connect(l, l.node[i].prev, l.node[i].next) EXCEPT !.node[i].next = "nullptr"]

\* IntrusiveList::erase(iterator_to(i))
erase(l, i) == unlink(l, i)

\* IntrusiveList::clear with SafeLink hooks: pop_front until empty
RECURSIVE clear(_, _)
clear(l, h) == IF list_empty(l, h) THEN l ELSE clear(unlink(l, l.node[h].next), h)

\* IntrusiveList::IntrusiveList
construct(l, h) == [l EXCEPT !.node[h] = [next |-> h, prev |-> h], !.alive[h] = TRUE]

\* IntrusiveList::~IntrusiveList with SafeLink hooks: clear()
destruct(l, h) ==
    [clear(l, h) EXCEPT !.node[h] = Unlinked, !.alive[h] = FALSE]

\* ToString(list, it, n): the items met in n steps of ++it from the node it,
\* "_" standing for end()
RECURSIVE ToStringForward(_, _, _, _)
ToStringForward(l, h, it, n) ==
    IF n = 0 THEN <<>>
    ELSE <<IF it = h THEN "_" ELSE it>> \o ToStringForward(l, h, l.node[it].next, n - 1)

\* ToStringReverse(list, it, n): the same with --it
RECURSIVE ToStringReverse(_, _, _, _)
ToStringReverse(l, h, it, n) ==
    IF n = 0 THEN <<>>
    ELSE <<IF it = h THEN "_" ELSE it>> \o ToStringReverse(l, h, l.node[it].prev, n - 1)

(* ------------------------------------------------ beside the spawn server *)

\* the variables of the spawn server
server ==
    <<connections, conn, proc, next_pid, next_socket, wire, quit, open_fds,
      tmpfs_manager, expire_timer>>

\* the variables that a callback of the server or of the loop model leaves
\* alone
elsewhere == <<cgroup, list>>

\* nothing has happened there
ElsewhereIdle ==
    /\ cgroup = NoCgroup
    /\ list = NewList

(* ------------------------------------------------------------- the steps *)

\* the server becomes s
Commit(s) ==
    \E v \in {s} :
        /\ connections' = v.connections
        /\ conn' = v.conn
        /\ proc' = v.proc
        /\ next_pid' = v.next_pid
        /\ next_socket' = v.next_socket
        /\ wire' = v.wire
        /\ quit' = v.quit
        /\ open_fds' = v.open_fds
        /\ tmpfs_manager' = v.tmpfs_manager
        /\ expire_timer' = v.expire_timer
        /\ loop' = loop
        /\ UNCHANGED elsewhere

\* The spawn server after SpawnServerProcess's constructor (without a mount
\* namespace) and the AddConnection of the initial socket.
ServerInit ==
    /\ connections = <<1>>
    /\ conn = [c \in Sockets |-> IF c = 1 THEN [NoConnection EXCEPT !.read = TRUE]
                                 ELSE NoConnection]
    /\ proc = [p \in Pids |-> NoProcess]
    /\ next_pid = 1
    /\ next_socket = 2
    /\ wire = [c \in Sockets |-> NoWire]
    /\ quit = FALSE
    /\ open_fds = {Fd("socket", 1)}
    /\ tmpfs_manager = NoTmpfsManager
    /\ expire_timer = NoTimer

Init ==
    /\ ServerInit
    /\ loop = NewLoop(FALSE)
    /\ ElsewhereIdle

\* Request ids are told apart by equality only, so a client that takes an id
\* it has not used before may as well take the smallest such: the n-th EXEC
\* takes one of the n smallest ids.
IdInTurn(s, i) == Cardinality({j \in Ids : j < i}) < s.next_pid

\* the messages whose handling stays within the bounds of the model
Admissible(s, m) ==
    /\ (m.cmd = "EXEC" /\ ~ParseExec(m).bad) =>
            s.next_pid <= MaxExec /\ IdInTurn(s, m.id)
    /\ (m.cmd = "CONNECT" /\ m.rest = 0 /\ m.nfds = 1) => s.next_socket <= MaxConns

\* the surroundings that matter to a message: those of SpawnChild for an
\* EXEC that parses, none otherwise
EnvsOf(m) == IF m.cmd = "EXEC" /\ ~ParseExec(m).bad THEN Envs ELSE {GoodEnv}

\* The reactor reports ERROR on a connection's socket.
SocketError(c) ==
    /\ IsLive(State, c)
    /\ Commit(OnSocketEvent(State, c, {"ERROR"}, TRUE, TRUE, "msg", Msg("NONE"), GoodEnv))

\* The reactor reports HANGUP.
SocketHangup(c) ==
    /\ IsLive(State, c)
    /\ Commit(OnSocketEvent(State, c, {"HANGUP"}, TRUE, TRUE, "msg", Msg("NONE"), GoodEnv))

\* The socket is writable while write interest is armed; each of the two
\* sends goes through or fails.
SocketWrite(c) ==
    /\ IsLive(State, c)
    /\ conn[c].write
    /\ \E ok1 \in BOOLEAN, ok2 \in BOOLEAN :
        Commit(OnSocketEvent(State, c, {"WRITE"}, ok1, ok2, "msg", Msg("NONE"), GoodEnv))

\* OnSocketEvent with READ among the events, ReceiveMessage returning one of
\* the messages msgs.
Receive(c, events, msgs) ==
    /\ IsLive(State, c)
    /\ \E m \in msgs : \E env \in EnvsOf(m) :
        /\ Admissible(State, m)
        /\ Commit(OnSocketEvent(State, c, events, TRUE, TRUE, "msg", m, env))

\* The socket is readable and ReceiveMessage returns a message.
SocketRead(c) == Receive(c, {"READ"}, Msgs)

\* The socket is readable and ReceiveMessage returns an empty payload (the
\* peer has closed) or throws.
SocketReadFails(c) ==
    /\ IsLive(State, c)
    /\ \E rx \in {"eof", "error"} :
        /\ Commit(OnSocketEvent(State, c, {"READ"}, TRUE, TRUE, rx, Msg("NONE"), GoodEnv))

\* The socket is writable and readable in the same callback.
SocketReadWrite(c) ==
    /\ conn[c].write
    /\ Receive(c, {"READ", "WRITE"}, Msgs)

\* A child process terminates; its pidfd becomes readable.
ChildTerminates(p) ==
    /\ proc[p].state = "running"
    /\ proc' = [proc EXCEPT ![p].state = "zombie"]
    /\ UNCHANGED <<connections, conn, next_pid, next_socket, wire, quit, open_fds,
                   tmpfs_manager, expire_timer, loop, elsewhere>>

\* the wait status of a process: it exited with code 0 or died of a SIGTERM
\* from elsewhere
Statuses == {0, SIGTERM}

\* PidfdEvent reports the exit to its listener: the SpawnServerChild, which
\* passes it to its connection.
ChildExitEvent(p) ==
    /\ proc[p].state = "zombie"
    /\ proc[p].watcher = "child"
    /\ \E status \in Statuses :
        Commit(OnChildProcessExit(State, proc[p].conn, proc[p].id, status, p))

\* The exit of a process that was handed to ChildProcessRegistry::Kill is
\* taken by the registry; no connection hears of it.
RegistryExitEvent(p) ==
    /\ proc[p].state = "killed"
    /\ proc' = [proc EXCEPT ![p].state = "reaped"]
    /\ open_fds' = open_fds \ {Fd("pidfd", p)}
    /\ UNCHANGED <<connections, conn, next_pid, next_socket, wire, quit,
                   tmpfs_manager, expire_timer, loop, elsewhere>>

Next ==
    \/ \E c \in Sockets : SocketError(c)
    \/ \E c \in Sockets : SocketHangup(c)
    \/ \E c \in Sockets : SocketWrite(c)
    \/ \E c \in Sockets : SocketRead(c)
    \/ \E c \in Sockets : SocketReadFails(c)
    \/ \E c \in Sockets : SocketReadWrite(c)
    \/ \E p \in Pids : ChildTerminates(p)
    \/ \E p \in Pids : ChildExitEvent(p)
    \/ \E p \in Pids : RegistryExitEvent(p)

Spec == Init /\ [][Next]_vars

\* The socket is writable and both sends go through.
Written(c) ==
    /\ IsLive(State, c)
    /\ conn[c].write
    /\ Commit(OnSocketEvent(State, c, {"WRITE"}, TRUE, TRUE, "msg", Msg("NONE"), GoodEnv))

\* The event loop goes on dispatching what is ready: a readable pidfd is
\* reported to its listener, and a socket with write interest armed becomes
\* writable in the end.
Dispatch ==
    \/ \E c \in Sockets : Written(c)
    \/ \E p \in Pids : ChildExitEvent(p)

FairSpec == Spec /\ WF_vars(Dispatch)

(* ------------------------------------------- what a client gets to observe *)

Items(q) == {q[i] : i \in 1..Len(q)}

Commands == {"EXEC_COMPLETE", "EXIT"}

\* the response queue of connection c for one response command
Queue(s, c, cmd) ==
    IF cmd = "EXIT" THEN s.conn[c].exit_queue ELSE s.conn[c].exec_complete_queue

\* the responses of connection c so far, queued or written
Responses(s, c, cmd) == Items(Queue(s, c, cmd)) \cup Items(s.wire[c][cmd])

\* the EXIT responses to request req, each with its connection
ExitsFor(s, req) ==
    {y \in UNION {{<<c, x>> : x \in Responses(s, c, "EXIT")} : c \in Sockets} :
        y[2].req = req}

\* the EXEC_COMPLETE responses to request req on connection c
ExecCompletesFor(s, c, req) ==
    {x \in Responses(s, c, "EXEC_COMPLETE") : x.req = req}

\* a KILL message of one pair
KillOne(id, signo) == [Msg("KILL") EXCEPT !.pairs = <<Pair(id, signo)>>]

(* ---------------------------------------------------------------- claims *)

\* C1: on every connection and for each of the two response queues, the
\* responses are written to the socket in the order in which they were
\* enqueued, however many were enqueued between two write events.
C1_WrittenInEnqueueOrder ==
    \A c \in Sockets : \A cmd \in Commands :
        \A i, j \in 1..Len(wire[c][cmd]) :
            i < j => wire[c][cmd][i].seq < wire[c][cmd][j].seq

\* C2: whatever the outcome of the sends of a write event, the connection
\* stays and every response that was queued is then either still queued or
\* written: a failed send loses none.
C2_FailedSendKeepsResponses ==
    \A c \in Sockets : (IsLive(State, c) /\ conn[c].write) =>
        \A ok1, ok2 \in BOOLEAN :
            LET s1 == OnSocketEvent(State, c, {"WRITE"}, ok1, ok2, "msg",
                                    Msg("NONE"), GoodEnv)
            IN /\ IsLive(s1, c)
               /\ \A cmd \in Commands :
                    Items(Queue(State, c, cmd)) \subseteq Responses(s1, c, cmd)

ErrorSeen(c, p) ==
    \E x \in Items(wire[c].EXEC_COMPLETE) : x.req = p /\ x.error # ""
ExitSeen(c, p) == \E x \in Items(wire[c].EXIT) : x.req = p

C5_KillPair ==
    \A c \in Sockets : IsLive(State, c) =>
        \A id \in Ids, signo \in Signos :
            LET s1 == ReceiveAndHandle(State, c, "msg", KillOne(id, signo), GoodEnv)
                found == {p \in conn[c].children : proc[p].id = id}
            IN IF found = {} THEN s1 = State
               ELSE \E p \in found :
                      /\ s1.proc[p].sig = signo
                      /\ s1.proc[p].state = "killed"
                      /\ \A q \in Pids \ {p} : s1.proc[q] = proc[q]
                      /\ s1.conn = [conn EXCEPT ![c].children = @ \ {p}]
                      /\ s1.connections = connections
                      /\ s1.wire = wire

\* a KILL pair has sent SIGKILL to one child while another child is running
C5_SignalDelivered ==
    \E p, q \in Pids :
        /\ proc[p].state = "killed"
        /\ proc[p].sig = SIGKILL
        /\ IsLive(State, proc[p].conn)
        /\ proc[q].state = "running"

Denied(m) ==
    \E i \in 1..Len(m.fields) :
        m.fields[i].tag = "UID_GID" /\ m.fields[i].uid = "denied"
NoUidGid(m) == \A i \in 1..Len(m.fields) : m.fields[i].tag # "UID_GID"

\* C7: an EXEC with id i that parses: if the credentials are rejected, or
\* there are none and no default, or tmpfs or clone fails, then exactly
\* EXEC_COMPLETE(i, non-empty error) and EXIT(i, 0xFF00) are enqueued, no
\* child is registered and the connection stays; otherwise exactly
\* EXEC_COMPLETE(i, "") is enqueued, no EXIT, and the child is registered.
C7_SpawnOutcome ==
    \A c \in Sockets : IsLive(State, c) =>
        \A m \in ExecMsgs : \A env \in Envs :
            (~ParseExec(m).bad /\ Admissible(State, m)) =>
                LET s1 == ReceiveAndHandle(State, c, "msg", m, env)
                    fails == \/ Denied(m) /\ ~env.hook
                             \/ NoUidGid(m) /\ env.default_empty
                             \/ ~env.clone_ok
                    ec == Items(s1.conn[c].exec_complete_queue)
                            \ Items(conn[c].exec_complete_queue)
                    ex == Items(s1.conn[c].exit_queue) \ Items(conn[c].exit_queue)
                IN /\ IsLive(s1, c)
                   /\ s1.connections = connections
                   /\ Cardinality(ec) = 1
                   /\ Len(s1.conn[c].exec_complete_queue)
                        = Len(conn[c].exec_complete_queue) + 1
                   /\ \A x \in ec : x.id = m.id /\ (x.error # "" <=> fails)
                   /\ IF fails
                      THEN /\ Cardinality(ex) = 1
                           /\ Len(s1.conn[c].exit_queue) = Len(conn[c].exit_queue) + 1
                           /\ \A x \in ex : x.id = m.id /\ x.status = SpawnFailedStatus
                           /\ s1.proc = proc
                           /\ \A d \in Sockets : s1.conn[d].children = conn[d].children
                      ELSE /\ s1.conn[c].exit_queue = conn[c].exit_queue
                           /\ s1.conn[c].children = conn[c].children \cup {next_pid}
                           /\ s1.proc[next_pid].state = "running"
                           /\ s1.proc[next_pid].id = m.id

\* a spawn has failed (both responses are queued, no child came of it) and
\* another has succeeded
C7_SpawnFailedAndSucceeded ==
    \E c \in Sockets : \E p, q \in Pids :
        /\ IsLive(State, c)
        /\ \E x \in Items(conn[c].exec_complete_queue) : x.req = p /\ x.error # ""
        /\ \E x \in Items(conn[c].exit_queue) : x.req = p /\ x.status = SpawnFailedStatus
        /\ proc[p].state = "unused"
        /\ proc[q].state = "running"
        /\ \E x \in Responses(State, c, "EXEC_COMPLETE") : x.req = q /\ x.error = ""

\* C8: a message whose decoding throws MalformedSpawnPayloadError leaves the
\* whole server as it was: the connection stays and keeps reading, no child
\* is registered, removed or signalled, no response is enqueued.
C8_MalformedMessageIsDiscarded ==
    \A c \in Sockets : IsLive(State, c) =>
        \A m \in Msgs : \A env \in EnvsOf(m) :
            (Admissible(State, m) /\ HandleMessage(State, c, m, env).thrown = "malformed")
                => ReceiveAndHandle(State, c, "msg", m, env) = State

\* C9: an EXEC payload with a tag byte outside the known tags, and a message
\* whose first byte is none of CONNECT, EXEC and KILL, are rejected as
\* malformed, and no child is spawned for them.
C9_UnknownTagOrCommandIsMalformed ==
    \A c \in Sockets : IsLive(State, c) =>
        \A m \in Msgs : \A env \in EnvsOf(m) :
            (/\ Admissible(State, m)
             /\ \/ m.cmd = "EXEC" /\ HasUnknownTag(m)
                \/ m.cmd \notin {"CONNECT", "EXEC", "KILL"}) =>
                /\ HandleMessage(State, c, m, env).thrown = "malformed"
                /\ ReceiveAndHandle(State, c, "msg", m, env).proc = proc

\* C10: a CONNECT with no payload and exactly one descriptor appends exactly
\* one connection, on the socket passed, scheduled for reading, and changes
\* nothing else; a CONNECT with payload bytes or with another number of
\* descriptors is malformed and changes nothing.
C10_Connect ==
    \A c \in Sockets : IsLive(State, c) =>
        \A m \in ConnectMsgs : Admissible(State, m) =>
            LET s1 == ReceiveAndHandle(State, c, "msg", m, GoodEnv)
            IN IF m.rest = 0 /\ m.nfds = 1
               THEN /\ ~IsLive(State, next_socket)
                    /\ s1.connections = Append(connections, next_socket)
                    /\ s1.conn[next_socket] =
                        [children |-> {}, exec_complete_queue |-> <<>>,
                         exit_queue |-> <<>>, read |-> TRUE, write |-> FALSE]
                    /\ \A d \in Sockets \ {next_socket} : s1.conn[d] = conn[d]
                    /\ s1.proc = proc
                    /\ s1.wire = wire
               ELSE /\ HandleMessage(State, c, m, GoodEnv).thrown = "malformed"
                    /\ s1 = State

\* a CONNECT has added the second connection, which is reading
C10_ConnectionAdded ==
    /\ connections = <<1, 2>>
    /\ conn[2].read
    /\ next_socket = 3

(* ------------------------------------------------------------- shutdown *)

\* EventLoop::IsEmpty() as Run() asks it between two callbacks: nothing is
\* registered with the loop any more: no connection's SocketEvent, no
\* PidfdEvent of a child record or of the registry, and the expire timer is
\* cancelled.  Then Run() returns.
LoopIsEmpty ==
    /\ connections = <<>>
    /\ quit
    /\ \A p \in Pids : proc[p].state \notin {"running", "zombie", "killed"}

\* A process that the registry has sent a signal terminates in the end and
\* the registry collects it.
ShutdownSpec == Spec /\ WF_vars(\E p \in Pids : RegistryExitEvent(p))

C12_TeardownKillsOwnChildren ==
    \A c \in Sockets : IsLive(State, c) =>
        LET s1 == OnSocketEvent(State, c, {"HANGUP"}, TRUE, TRUE, "msg",
                                Msg("NONE"), GoodEnv)
        IN /\ \A p \in conn[c].children :
                /\ s1.proc[p].state = "killed"
                /\ s1.proc[p].sig = SIGTERM
                /\ s1.proc[p].watcher = "registry"
                /\ s1.proc[p].id = 0
           /\ \A p \in Pids \ conn[c].children : s1.proc[p] = proc[p]
           /\ s1.conn[c].children = {}
           /\ ~s1.conn[c].read /\ ~s1.conn[c].write
           /\ ~IsLive(s1, c)
           /\ \A d \in Sockets \ {c} :
                s1.conn[d] = conn[d] /\ (IsLive(s1, d) <=> IsLive(State, d))

\* a connection with a child was removed and the child got SIGTERM, while a
\* child of another connection is running
C12_TornDownBesideRunning ==
    \E p, q \in Pids :
        /\ proc[p].state = "killed"
        /\ proc[p].sig = SIGTERM
        /\ ~IsLive(State, proc[p].conn)
        /\ proc[q].state = "running"
        /\ proc[q].conn # proc[p].conn
        /\ q \in conn[proc[q].conn].children

(* ------------------------------------------------- removing a connection *)

\* the sets of events a socket callback may report
EventSets == SUBSET {"READ", "WRITE", "HANGUP", "ERROR"} \ {{}}

\* what ReceiveMessage may do
Receipts == {"msg", "eof", "error"}

\* the messages that matter to a callback: those a client may send if the
\* callback gets to handling a message, none otherwise
MsgsFor(events, rx) ==
    IF "READ" \in events /\ rx = "msg" /\ events \cap {"HANGUP", "ERROR"} = {}
    THEN {m \in Msgs : Admissible(State, m)} ELSE {Msg("NONE")}

\* the outcomes of the two sends that matter to a callback
SendsFor(events) ==
    IF "WRITE" \in events THEN BOOLEAN \X BOOLEAN ELSE {<<TRUE, TRUE>>}

\* C13: whatever events a socket callback reports, whatever the sends and
\* the receive do and whatever message arrives, the connection is removed
\* exactly if ERROR or HANGUP is reported, or a send fails, or the receive
\* returns an empty payload or throws; and if it is removed, every child it
\* had is handed to the registry with SIGTERM.
C13_RemovalCauses ==
    \A c \in Sockets : IsLive(State, c) =>
        \A events \in EventSets : \A rx \in Receipts : \A ok \in SendsFor(events) :
            \A m \in MsgsFor(events, rx) : \A env \in EnvsOf(m) :
                LET s1 == OnSocketEvent(State, c, events, ok[1], ok[2], rx, m, env)
                    sendFails ==
                        \/ ~ok[1] /\ conn[c].exec_complete_queue # <<>>
                        \/ ~ok[2] /\ conn[c].exit_queue # <<>>
                    cause ==
                        \/ "ERROR" \in events
                        \/ "HANGUP" \in events
                        \/ "WRITE" \in events /\ sendFails
                        \/ "READ" \in events /\ rx # "msg"
                IN /\ ~IsLive(s1, c) <=> cause
                   /\ s1.thrown = "none"
                   /\ cause =>
                        \A p \in conn[c].children :
                            s1.proc[p].state = "killed" /\ s1.proc[p].sig = SIGTERM

\* a connection with a child was removed: the child was handed to the
\* registry with SIGTERM and the connection is not in the list
C13_RemovedWithChild ==
    \E p \in Pids :
        /\ proc[p].state = "killed"
        /\ proc[p].sig = SIGTERM
        /\ ~IsLive(State, proc[p].conn)
        /\ connections # <<>>

(* ---------------------------------------------------------- long queues *)

\* the longest response queue looked at: two full datagrams and one item
MaxQueued == 129

\* the queue lengths looked at: around one datagram and around two
QueueLens ==
    {0, 1, 2, BatchMax - 1, BatchMax, BatchMax + 1, BatchMax + 2,
     2 * BatchMax - 1, 2 * BatchMax, MaxQueued}

\* exec_complete_queue after n EXEC requests failed to spawn and nothing was
\* written: SendExecComplete pushes to the front, so the latest is first
FailedExecs(n) ==
    [i \in 1..n |-> [id |-> IF (n - i) % 2 = 0 THEN 7 ELSE 8, error |-> FullMessage,
                     req |-> 0, seq |-> n - i]]

\* exit_queue after n children exited and nothing was written
Exited(n) ==
    [i \in 1..n |-> [id |-> IF (n - i) % 2 = 0 THEN 7 ELSE 8, status |-> 0,
                     req |-> 0, seq |-> n - i]]

\* The server with one client that has not been read from for a while: many
\* responses are queued.  The processes of those requests are gone and are
\* not represented.
BatchInit ==
    /\ connections = <<1>>
    /\ \E n \in QueueLens, k \in QueueLens :
        conn = [c \in Sockets |->
                  IF c = 1
                  THEN [NoConnection EXCEPT !.read = TRUE,
                                            !.write = (n > 0 \/ k > 0),
                                            !.exec_complete_queue = FailedExecs(n),
                                            !.exit_queue = Exited(k)]
                  ELSE NoConnection]
    /\ proc = [p \in Pids |-> NoProcess]
    /\ next_pid = 1
    /\ next_socket = 2
    /\ wire = [c \in Sockets |-> NoWire]
    /\ quit = FALSE
    /\ open_fds = {Fd("socket", 1)}
    /\ tmpfs_manager = NoTmpfsManager
    /\ expire_timer = NoTimer
    /\ loop = NewLoop(FALSE)
    /\ ElsewhereIdle

BatchNext == \E c \in Sockets : SocketWrite(c) \/ SocketHangup(c)

BatchSpec == BatchInit /\ [][BatchNext]_vars

\* C14: each flush writes one datagram of the first items of its queue, at
\* most 64 of them; and a write event whose sends succeed, with more than 64
\* items in a queue, writes exactly the first 64 of them, leaves the others
\* queued in their order and leaves write interest armed.
C14_AtMost64PerDatagram ==
    \A c \in Sockets : IsLive(State, c) /\ conn[c].write =>
        \A cmd \in Commands :
            LET q == Queue(State, c, cmd)
                before == Len(wire[c][cmd])
                f == IF cmd = "EXIT" THEN FlushExitQueue(State, c, TRUE)
                     ELSE FlushExecCompleteQueue(State, c, TRUE)
                sent == SubSeq(f.wire[c][cmd], before + 1, Len(f.wire[c][cmd]))
                s1 == OnSocketEvent(State, c, {"WRITE"}, TRUE, TRUE, "msg",
                                    Msg("NONE"), GoodEnv)
            IN /\ f.wire[c][cmd] = wire[c][cmd] \o sent
               /\ Len(sent) <= 64
               /\ \A i \in 1..Len(sent) : sent[i] = q[i]
               /\ q # <<>> => sent # <<>>
               /\ IsLive(s1, c)
               /\ s1.wire[c][cmd] = f.wire[c][cmd]
               /\ Len(q) > 64 =>
                    /\ Len(sent) = 64
                    /\ Queue(s1, c, cmd) = SubSeq(q, 65, Len(q))
                    /\ s1.conn[c].write

\* of MaxQueued queued EXEC_COMPLETE items one datagram of BatchMax was
\* written and the others are still queued, write interest armed
C14_OneDatagramOfMany ==
    /\ IsLive(State, 1)
    /\ Len(wire[1].EXEC_COMPLETE) = 64
    /\ Len(conn[1].exec_complete_queue) = MaxQueued - 64
    /\ conn[1].write

(* -------------------------------------------------------- write interest *)

\* C15: between callbacks a live connection has write interest armed exactly
\* if one of its two response queues is not empty.
C15_WriteArmedIffQueued ==
    \A c \in Sockets : IsLive(State, c) =>
        (conn[c].write <=>
            (conn[c].exec_complete_queue # <<>> \/ conn[c].exit_queue # <<>>))

\* a connection whose responses of both kinds were written and whose write
\* interest was cancelled, beside a connection with an EXIT response queued
\* behind an empty exec_complete_queue
C15_CancelledAndArmed ==
    \E c \in Sockets, d \in Sockets :
        /\ IsLive(State, c) /\ IsLive(State, d)
        /\ ~conn[c].write
        /\ wire[c].EXEC_COMPLETE # <<>>
        /\ wire[c].EXIT # <<>>
        /\ conn[d].write
        /\ conn[d].exec_complete_queue = <<>>
        /\ conn[d].exit_queue # <<>>

(* ------------------------------------------------- one message at a time *)

\* the EXEC messages that parse and that a client may send now
GoodExecs == {m \in ExecMsgs : ~ParseExec(m).bad /\ Admissible(State, m)}

\* C16: when ReceiveAndHandle returns from an EXEC the registration of its
\* id is decided: either a new child with that id is in the child map and an
\* EXEC_COMPLETE without error is queued, or the map is as it was and an
\* EXEC_COMPLETE with the error is queued.  A KILL for that id handled next
\* on the same connection therefore finds the child if it was spawned, and
\* changes nothing if it was not and no older child has the id.
C16_ExecDecidedBeforeNextMessage ==
    \A c \in Sockets : IsLive(State, c) =>
        \A m \in GoodExecs : \A env \in Envs : \A signo \in Signos :
            LET s1 == ReceiveAndHandle(State, c, "msg", m, env)
                s2 == ReceiveAndHandle(s1, c, "msg", KillOne(m.id, signo), GoodEnv)
                new == s1.conn[c].children \ conn[c].children
                req == next_pid
            IN /\ s1.thrown = "none" /\ s2.thrown = "none"
               /\ Cardinality(ExecCompletesFor(s1, c, req)) = 1
               /\ IF SpawnThrows(ParseExec(m).p, env)
                  THEN /\ s1.conn[c].children = conn[c].children
                       /\ \A x \in ExecCompletesFor(s1, c, req) : x.error # ""
                       /\ Find(State, c, m.id) = {} => s2 = s1
                  ELSE /\ new = {req}
                       /\ s1.proc[req].state = "running"
                       /\ s1.proc[req].id = m.id
                       /\ \A x \in ExecCompletesFor(s1, c, req) : x.error = ""
                       /\ \E p \in Find(s1, c, m.id) :
                            /\ s2.proc[p].state = "killed"
                            /\ s2.proc[p].sig = signo
                            /\ p \notin s2.conn[c].children

\* a KILL was handled right after the EXEC of its id: the child is killed
\* while the EXEC_COMPLETE of its request is still queued
C16_KilledBeforeFirstWrite ==
    \E p \in Pids :
        /\ proc[p].state = "killed"
        /\ proc[p].sig = SIGKILL
        /\ IsLive(State, proc[p].conn)
        /\ \E x \in Items(conn[proc[p].conn].exec_complete_queue) :
                x.req = p /\ x.error = ""

(* ------------------------------------------------------- argument counts *)

\* an EXEC message of the smallest encoding with n ARG and k SETENV fields
ManyArgs(n, k) ==
    [Msg("EXEC") EXCEPT
        !.id = 7,
        !.fields = <<Field("EXEC_PATH")>>
                   \o (IF n > 0 THEN <<[Field("ARG") EXCEPT !.rep = n]>> ELSE <<>>)
                   \o (IF k > 0 THEN <<[Field("SETENV") EXCEPT !.rep = k]>> ELSE <<>>)]

\* C17: an EXEC message with n ARG and k SETENV fields, n and k up to 16384
\* each, sent to a connection, is what HandleExecMessage parses: it is
\* accepted with all n arguments and all k variables and the child is
\* spawned; with a 16385th field of either kind it is malformed and nothing
\* changes.
C17_ArgAndEnvLimit ==
    \A c \in Sockets : (IsLive(State, c) /\ next_pid <= MaxExec) =>
        \A n \in {0, 1, MaxArgs, MaxArgs + 1} : \A k \in {0, 1, MaxArgs, MaxArgs + 1} :
            LET st == ParseExec(Received(ManyArgs(n, k)))
                s1 == ReceiveAndHandle(State, c, "msg", ManyArgs(n, k), GoodEnv)
            IN IF n <= MaxArgs /\ k <= MaxArgs
               THEN /\ ~st.bad /\ st.p.args = n /\ st.p.env = k
                    /\ s1.conn[c].children = conn[c].children \cup {next_pid}
               ELSE st.bad /\ s1 = State

(* --------------------------------------------------- supplementary groups *)

\* the group counts looked at; the count is one byte of the payload
GroupCounts == {0, 1, MaxGroups - 1, MaxGroups, MaxGroups + 1, 255}

\* an EXEC message with a UID_GID field of n groups after one of n0 groups,
\* or alone if n0 < 0
WithGroups(n0, n) ==
    [Msg("EXEC") EXCEPT
        !.id = 7,
        !.fields = <<Field("EXEC_PATH")>>
                   \o (IF n0 >= 0 THEN <<[Field("UID_GID") EXCEPT !.n = n0]>> ELSE <<>>)
                   \o <<[Field("UID_GID") EXCEPT !.n = n]>>]

\* C18: an EXEC message whose last UID_GID field has n groups: with n up to
\* the capacity of the array it is accepted, the first n entries of the
\* array are the n groups of the field, and if n is less than the capacity
\* the entry after them is 0, whatever an earlier UID_GID field left there;
\* with n above the capacity the message is malformed and nothing changes.
C18_GroupsAndSentinel ==
    \A c \in Sockets : (IsLive(State, c) /\ next_pid <= MaxExec) =>
        \A n0 \in {-1, MaxGroups} : \A n \in GroupCounts :
            LET m == WithGroups(n0, n)
                st == ParseExec(Received(m))
                s1 == ReceiveAndHandle(State, c, "msg", m, GoodEnv)
            IN IF n <= 32
               THEN /\ ~st.bad
                    /\ \A i \in 1..n : st.p.groups[i] = i
                    /\ n < 32 => st.p.groups[n + 1] = 0
                    /\ s1.conn[c].children = conn[c].children \cup {next_pid}
               ELSE st.bad /\ s1 = State

\* a connection that an EXEC with a full group array can be sent to, where
\* it is accepted with all 32 groups and spawns a child beside an older one
C18_FullArrayAccepted ==
    \E c \in Sockets :
        /\ IsLive(State, c)
        /\ next_pid <= MaxExec
        /\ conn[c].children # {}
        /\ LET m == WithGroups(-1, MaxGroups)
               s1 == ReceiveAndHandle(State, c, "msg", m, GoodEnv)
           IN /\ ParseExec(Received(m)).p.groups[MaxGroups] = MaxGroups
              /\ s1.proc[next_pid].state = "running"

(* ----------------------------------------------------------- descriptors *)

\* the most fields after EXEC_PATH, and the most descriptors, of the
\* messages looked at here
MaxFdFields == 2

\* the tags whose case takes a descriptor, and one whose case takes none
FdFieldTags == FdTags \cup FdBodyTags \cup {"TTY"}

\* EXEC messages made of up to MaxFdFields such fields, carrying up to
\* MaxFdFields + 1 descriptors
FdMsgs ==
    { [Msg("EXEC") EXCEPT !.id = i, !.nfds = n,
                          !.fields = <<Field("EXEC_PATH")>> \o [k \in 1..len |-> Field(tags[k])]] :
        i \in Ids, n \in 0..(MaxFdFields + 1),
        len \in 0..MaxFdFields, tags \in [1..MaxFdFields -> FdFieldTags] }

\* a client sends such messages and nothing else
FdNext ==
    \/ \E c \in Sockets : Receive(c, {"READ"}, FdMsgs)
    \/ \E c \in Sockets : SocketWrite(c)
    \/ \E p \in Pids : ChildTerminates(p)
    \/ \E p \in Pids : ChildExitEvent(p)

FdSpec == Init /\ [][FdNext]_vars

\* the fields of a message whose case takes a descriptor, in their order
FdFields(m) == SelectSeq(m.fields, LAMBDA f : f.tag \in FdTags \cup FdBodyTags)

\* C19: in parsing an EXEC message the k-th field whose tag takes a
\* descriptor is given the k-th descriptor of the message; no descriptor is
\* given twice; and if there are more such fields than descriptors the
\* message is malformed and nothing changes.
C19_KthTagTakesKthFd ==
    \A c \in Sockets : IsLive(State, c) =>
        \A m \in FdMsgs :
            LET st == ParseExec(Received(m))
                fdf == FdFields(m)
            IN IF Len(fdf) <= m.nfds
               THEN /\ ~st.bad
                    /\ Len(st.taken) = Len(fdf)
                    /\ \A k \in 1..Len(fdf) :
                            st.taken[k] = [tag |-> fdf[k].tag, fd |-> k]
                    /\ \A j, k \in 1..Len(st.taken) :
                            j # k => st.taken[j].fd # st.taken[k].fd
               ELSE /\ st.bad
                    /\ ReceiveAndHandle(State, c, "msg", m, GoodEnv) = State

\* a connection with a child already spawned, to which an EXEC with two
\* descriptor fields and two descriptors can be sent and is accepted, the
\* second field taking the second descriptor
C19_TwoTagsTwoFds ==
    \E c \in Sockets :
        /\ IsLive(State, c)
        /\ next_pid = 2
        /\ conn[c].children # {}
        /\ \E m \in FdMsgs :
            /\ m.nfds = 2 /\ m.id = 8
            /\ LET st == ParseExec(Received(m))
                   s1 == ReceiveAndHandle(State, c, "msg", m, GoodEnv)
               IN /\ Len(st.taken) = 2
                  /\ st.taken[1].tag = "STDIN" /\ st.taken[2].tag = "RETURN_PIDFD"
                  /\ st.taken[2].fd = 2
                  /\ s1.proc[2].state = "running"

\* C20: of every EXEC message that is parsed without being malformed, the
\* descriptors given to its fields are exactly the descriptors the message
\* carries, each given once: none is left over.
C20_ConsumedEqualsCarried ==
    \A c \in Sockets : IsLive(State, c) =>
        \A m \in FdMsgs :
            LET st == ParseExec(Received(m))
            IN ~st.bad =>
                /\ {st.taken[k].fd : k \in 1..Len(st.taken)} = 1..m.nfds
                /\ Len(st.taken) = m.nfds

(* ------------------------------------------------------ open descriptors *)

\* the descriptors the server has open at rest: the socket of every
\* connection and the pidfd of every process whose exit was not collected
AtRest(s) ==
    {Fd("socket", c) : c \in {x \in Sockets : IsLive(s, x)}}
    \cup {Fd("pidfd", p) : p \in {x \in Pids : s.proc[x].state \in {"running", "zombie", "killed"}}}

\* C21: between callbacks the open descriptors are one socket per connection
\* and one pidfd per process whose exit was not collected; and after any
\* message is handled, accepted or not, no descriptor that came with it is
\* open, except the socket of the connection a CONNECT added.
C21_NoMessageFdIsKept ==
    /\ open_fds = AtRest(State)
    /\ \A c \in Sockets : IsLive(State, c) =>
        \A m \in {x \in Msgs : Admissible(State, x)} : \A env \in EnvsOf(m) :
            LET s1 == ReceiveAndHandle(State, c, "msg", m, env)
            IN /\ \A f \in s1.open_fds : f.kind # "msg"
               /\ s1.open_fds = AtRest(s1)
               /\ \A f \in s1.open_fds \ open_fds :
                    \/ f.kind = "socket" /\ m.cmd = "CONNECT" /\ m.nfds = 1
                    \/ f.kind = "pidfd" /\ m.cmd = "EXEC" /\ f.n = next_pid

\* a CONNECT has added a connection, a child of one connection is running
\* and the exit of another process was collected: two sockets and one pidfd
\* are open
C21_TwoSocketsOnePidfd ==
    /\ Len(connections) = 2
    /\ \E p, q \in Pids : proc[p].state = "running" /\ proc[q].state = "reaped"
    /\ Cardinality(open_fds) = 3

(* --------------------------------------------------------- field streams *)

\* the most fields after EXEC_PATH of the messages made up below
MaxFields == 3

\* the EXEC messages for request id i with n descriptors whose fields are
\* EXEC_PATH and then up to MaxFields fields out of fs
ExecsOf(i, n, fs) ==
    { [Msg("EXEC") EXCEPT !.id = i, !.nfds = n,
                          !.fields = <<Field("EXEC_PATH")>> \o [k \in 1..len |-> seq[k]]] :
        len \in 0..MaxFields, seq \in [1..MaxFields -> fs] }

CgroupTags == {"CGROUP", "CGROUP_SESSION", "CGROUP_SET", "CGROUP_XATTR"}

\* messages of cgroup fields and a flag in every order
CgroupMsgs ==
    UNION {ExecsOf(i, 0, {Field(tag) : tag \in CgroupTags \cup {"TTY"}}) : i \in Ids}

\* a field with a target path
FieldAt(tag, target) == [Field(tag) EXCEPT !.target = target]

\* messages that repeat fields whose case stores one value or sets a flag
RepeatMsgs ==
    UNION {ExecsOf(i, 1, {Field(tag) : tag \in {"EXEC_PATH", "HOSTNAME", "TTY", "STDIN"}}) :
            i \in Ids}

\* the mounts a message may ask for: each kind at one target, two kinds at
\* a second target as well
MountFields ==
    {FieldAt(tag, "/a") : tag \in MountTags}
    \cup {FieldAt(tag, "/b") : tag \in {"MOUNT_TMPFS", "FD_BIND_MOUNT"}}

\* messages of mount directives and a flag in every order, with descriptors
\* enough for all of them
MountMsgs == ExecsOf(7, MaxFields, MountFields \cup {Field("TTY")})

\* messages with a tmpfs at /tmp, asked for in either way, among other mounts
TmpMsgs ==
    UNION {ExecsOf(i, 0, {FieldAt("MOUNT_TMPFS", "/tmp"), FieldAt("MOUNT_TMPFS", "/a"),
                          FieldAt("MOUNT_TMP_TMPFS", "/tmp"), FieldAt("BIND_MOUNT", "/b")}) :
            i \in Ids}

\* an RLIMIT field with an index byte
RlimitAt(index, ub) == [Field("RLIMIT") EXCEPT !.index = index, !.ub = ub]

\* messages with resource limits for the first and the last resource
RlimitMsgs ==
    UNION {ExecsOf(i, 0, {RlimitAt(0, "overrun"), RlimitAt(RLIM_NLIMITS - 1, "overrun")}) :
            i \in Ids}

\* messages with resource limits whose index may be past the last resource,
\* in either kind of build
AnyRlimitMsgs ==
    ExecsOf(7, 0, {RlimitAt(k, ub) :
                    k \in {0, RLIM_NLIMITS - 1, RLIM_NLIMITS, RLIM_NLIMITS + 1},
                    ub \in {"overrun", "abort"}})

\* the messages a client sends in ParseSpec
ParseMsgs == CgroupMsgs \cup RepeatMsgs \cup TmpMsgs \cup RlimitMsgs

\* a client sends EXEC messages of all these shapes and nothing else
ParseNext ==
    \/ \E c \in Sockets : Receive(c, {"READ"}, ParseMsgs)
    \/ \E c \in Sockets : SocketWrite(c)
    \/ \E p \in Pids : ChildTerminates(p)
    \/ \E p \in Pids : ChildExitEvent(p)

ParseSpec == Init /\ [][ParseNext]_vars

\* C22: an EXEC message is malformed (and changes nothing) if a
\* CGROUP_SESSION, CGROUP_SET or CGROUP_XATTR field comes before any CGROUP
\* field or if it has a second CGROUP field, and messages of these fields
\* are malformed for no other reason; so a PreparedChildProcess with a
\* cgroup session, assignment or attribute has a cgroup.
C22_CgroupNameFirst ==
    \A c \in Sockets : IsLive(State, c) =>
        \A m \in CgroupMsgs :
            LET st == ParseExec(Received(m))
                fs == m.fields
                named(i) == \E j \in 1..(i - 1) : fs[j].tag = "CGROUP"
                wrong ==
                    \E i \in 1..Len(fs) :
                        \/ fs[i].tag \in {"CGROUP_SESSION", "CGROUP_SET", "CGROUP_XATTR"}
                            /\ ~named(i)
                        \/ fs[i].tag = "CGROUP" /\ named(i)
            IN /\ st.bad <=> wrong
               /\ st.bad => ReceiveAndHandle(State, c, "msg", m, GoodEnv) = State
               /\ ~st.bad =>
                    /\ st.p.cgroup_attrs # {} => st.p.cgroup
                    /\ st.p.cgroup_attrs =
                        {fs[i].tag : i \in 1..Len(fs)} \cap
                            {"CGROUP_SESSION", "CGROUP_SET", "CGROUP_XATTR"}

\* a connection with a child already spawned, where an EXEC with CGROUP
\* followed by a session and an attribute is accepted and spawns another
C22_CgroupThenAttrs ==
    \E c \in Sockets :
        /\ IsLive(State, c)
        /\ next_pid = 2
        /\ conn[c].children # {}
        /\ \E m \in CgroupMsgs :
            /\ m.id = 8
            /\ ParseExec(Received(m)).p.cgroup_attrs = {"CGROUP_SESSION", "CGROUP_XATTR"}
            /\ ReceiveAndHandle(State, c, "msg", m, GoodEnv).proc[2].state = "running"

\* the tags of which a message may have more than one field
Cumulative == {"ARG", "SETENV", "CGROUP_XATTR", "CGROUP_SET"} \cup MountTags

\* a tag that is not cumulative occurs twice in the message
RepeatsTag(m) ==
    \E i, j \in 1..Len(m.fields) :
        i < j /\ m.fields[i].tag = m.fields[j].tag /\ m.fields[i].tag \notin Cumulative

\* C23: an EXEC message in which a tag that is not cumulative occurs twice
\* is not accepted: it is malformed and no child is spawned for it.
C23_NonCumulativeTagOnce ==
    \A c \in Sockets : (IsLive(State, c) /\ next_pid <= MaxExec) =>
        \A m \in RepeatMsgs :
            RepeatsTag(m) =>
                /\ ParseExec(Received(m)).bad
                /\ ReceiveAndHandle(State, c, "msg", m, GoodEnv).proc = proc

\* the mount directives of a message, in the order of the payload
MountsAskedFor(m) ==
    LET fs == SelectSeq(m.fields, LAMBDA f : f.tag \in MountTags)
    IN [k \in 1..Len(fs) |->
            [type |-> fs[k].tag, target |-> fs[k].target, source |-> fs[k].source,
             source_fd |-> fs[k].tag \in FdBodyTags]]

\* C24: the mount list of the PreparedChildProcess parsed from an EXEC
\* message has one entry per mount directive of the payload, of its kind and
\* with its target, in the order of the payload, whatever the kinds and
\* whatever lies between them.
C24_MountsInPayloadOrder ==
    \A c \in Sockets : IsLive(State, c) =>
        \A m \in MountMsgs :
            LET st == ParseExec(Received(m))
            IN ~st.bad /\ st.p.mounts = MountsAskedFor(m)

\* a connection with a child already spawned, where an EXEC with three
\* mounts of different kinds is accepted with the three in payload order and
\* spawns another child
C24_ThreeKindsInOrder ==
    \E c \in Sockets :
        /\ IsLive(State, c)
        /\ next_pid = 2
        /\ conn[c].children # {}
        /\ \E m \in MountMsgs :
            LET ms == ParseExec(Received(m)).p.mounts
            IN /\ Len(ms) = 3
               /\ ms[1].type = "WRITE_FILE"
               /\ ms[2].type = "FD_BIND_MOUNT" /\ ms[2].target = "/b"
               /\ ms[3].type = "MOUNT_TMPFS" /\ ms[3].target = "/a"
               /\ ReceiveAndHandle(State, c, "msg", m, GoodEnv).proc[2].state = "running"

\* C25: an EXEC message with a MOUNT_TMPFS field whose target is /tmp is
\* rejected, no child being spawned for it; one that asks for the tmpfs at
\* /tmp with MOUNT_TMP_TMPFS, and has no such MOUNT_TMPFS, is accepted.
C25_TmpfsAtTmp ==
    \A c \in Sockets : (IsLive(State, c) /\ next_pid <= MaxExec) =>
        \A m \in TmpMsgs :
            LET st == ParseExec(Received(m))
                s1 == ReceiveAndHandle(State, c, "msg", m, GoodEnv)
                tmp == \E i \in 1..Len(m.fields) :
                            m.fields[i] = FieldAt("MOUNT_TMPFS", "/tmp")
            IN IF tmp THEN s1.proc = proc
               ELSE s1.proc[next_pid].state = "running"

(* ----------------------------------------------------------- credentials *)

\* C26 as amended: an EXEC without uid/gid is spawned with the default
\* uid/gid of the configuration and fails if that is empty; an EXEC with a
\* uid/gid is spawned with it if the hook accepts the request or, the hook
\* not accepting or there being none, SpawnConfig::Verify allows the uid/gid;
\* if neither does, the exec fails with an EXEC_COMPLETE that has an error.
C26_CredentialsVerified ==
    \A c \in Sockets : IsLive(State, c) =>
        \A m \in GoodExecs : \A env \in {e \in Envs : e.clone_ok} :
            LET s1 == ReceiveAndHandle(State, c, "msg", m, env)
                p == ParseExec(Received(m)).p
                spawned == s1.proc[next_pid].state = "running"
                failed == /\ s1.proc = proc
                          /\ \E x \in Items(s1.conn[c].exec_complete_queue) :
                                x.req = next_pid /\ x.id = m.id /\ x.error # ""
            IN /\ spawned \/ failed
               /\ NoUidGid(m) =>
                    /\ spawned <=> ~env.default_empty
                    /\ spawned => VerifiedUidGid(p, env) = "default"
               /\ ~NoUidGid(m) =>
                    /\ spawned <=> (env.hook \/ ~Denied(m))
                    /\ spawned => VerifiedUidGid(p, env) = p.uid_gid

\* a connection with a child already spawned, where an EXEC whose uid/gid
\* the configuration does not allow is spawned if the hook accepts it and
\* fails if there is no hook
C26_HookDecides ==
    \E c \in Sockets :
        /\ IsLive(State, c)
        /\ next_pid = 2
        /\ conn[c].children # {}
        /\ \E m \in GoodExecs :
            /\ Denied(m)
            /\ ReceiveAndHandle(State, c, "msg", m, GoodEnv).proc[2].state = "running"
            /\ ReceiveAndHandle(State, c, "msg", m,
                                [GoodEnv EXCEPT !.hook = FALSE]).proc = proc

\* C26: an EXEC with a uid/gid is spawned only if the hook accepts it.
C26_OnlyIfHookAccepts ==
    \A c \in Sockets : IsLive(State, c) =>
        \A m \in GoodExecs : \A env \in Envs :
            ~NoUidGid(m) =>
                (ReceiveAndHandle(State, c, "msg", m, env).proc[next_pid].state = "running"
                    => env.hook)

(* ------------------------------------------- a server with a tmpfs manager *)

\* The constructor of a SpawnServerProcess with a mount namespace: the tmpfs
\* manager is made and the expire timer scheduled.
TmpfsInit ==
    /\ connections = <<1>>
    /\ conn = [c \in Sockets |-> IF c = 1 THEN [NoConnection EXCEPT !.read = TRUE]
                                 ELSE NoConnection]
    /\ proc = [p \in Pids |-> NoProcess]
    /\ next_pid = 1
    /\ next_socket = 2
    /\ wire = [c \in Sockets |-> NoWire]
    /\ quit = FALSE
    /\ open_fds = {Fd("socket", 1)}
    /\ tmpfs_manager = [NoTmpfsManager EXCEPT !.present = TRUE]
    /\ expire_timer = [pending |-> TRUE, due |-> ExpirePeriod]
    /\ loop = NewLoop(FALSE)
    /\ ElsewhereIdle

\* a NAMED_TMPFS field of the name
NamedTmpfs(name) == [Field("MOUNT_NAMED_TMPFS") EXCEPT !.source = name]

\* EXECs with no, one or two NAMED_TMPFS mounts, and the KILL of each id
TmpfsMsgs ==
    {[Msg("EXEC") EXCEPT !.id = i, !.fields = fs] :
        i \in Ids,
        fs \in {<<Field("EXEC_PATH")>>,
                <<NamedTmpfs("t1")>>,
                <<NamedTmpfs("t1"), Field("MOUNT_TMPFS"), NamedTmpfs("t2")>>,
                <<NamedTmpfs("t2"), NamedTmpfs("t2")>>}}
    \cup {[Msg("KILL") EXCEPT !.pairs = <<Pair(i, SIGTERM)>>] : i \in Ids}

\* One tick of the clock passes: the last release of a mounted entry is one
\* tick longer ago, a pending timer is due one tick sooner.  A timer that is
\* due fires before the clock goes on.
Tick ==
    /\ expire_timer.pending => expire_timer.due > 0
    /\ tmpfs_manager' =
        [tmpfs_manager EXCEPT !.items =
            [n \in TmpfsNames |->
                LET e == tmpfs_manager.items[n]
                IN IF e.mounts > 0
                   THEN [e EXCEPT !.idle = Min(@ + 1, MaxIdle)]
                   ELSE e]]
    /\ expire_timer' =
        IF expire_timer.pending THEN [expire_timer EXCEPT !.due = @ - 1]
        ELSE expire_timer
    /\ UNCHANGED <<connections, conn, proc, next_pid, next_socket, wire, quit,
                   open_fds, loop, elsewhere>>

\* The expire timer fires; each unmount that is tried goes through or fails.
ExpireTimerEvent ==
    /\ expire_timer.pending
    /\ expire_timer.due = 0
    /\ \E ok \in [TmpfsNames -> BOOLEAN] : Commit(OnExpireTimer(State, ok))

TmpfsNext ==
    \/ \E c \in Sockets : Receive(c, {"READ"}, TmpfsMsgs)
    \/ \E c \in Sockets : SocketHangup(c)
    \/ \E p \in Pids : ChildTerminates(p)
    \/ \E p \in Pids : ChildExitEvent(p)
    \/ \E p \in Pids : RegistryExitEvent(p)
    \/ Tick
    \/ ExpireTimerEvent

TmpfsSpec == TmpfsInit /\ [][TmpfsNext]_vars

\* the leases of the name that a sequence of leases holds
LeasesIn(leases, name) == Cardinality({i \in 1..Len(leases) : leases[i] = name})

\* the leases of the name that the child records of the processes 1..k hold
RECURSIVE LeasesHeld(_, _, _)
LeasesHeld(s, name, k) ==
    IF k = 0 THEN 0
    ELSE LeasesIn(s.proc[k].leases, name) + LeasesHeld(s, name, k - 1)

\* C27: at most one tmpfs is mounted under a name at any time; the children
\* that asked for the name while it was cached share that one entry, each
\* with a lease of its own; and the reference count of an entry is the
\* number of leases held on it, which is never negative, a referenced entry
\* being mounted.
C27_OneTmpfsPerName ==
    \A n \in TmpfsNames :
        LET e == tmpfs_manager.items[n]
        IN /\ e.mounts <= 1
           /\ e.refs >= 0
           /\ e.refs = LeasesHeld(State, n, MaxExec)
           /\ e.refs > 0 => e.mounts = 1

\* two running children hold a lease each of the one tmpfs of a name
C27_TwoChildrenOneTmpfs ==
    \E p \in Pids, q \in Pids :
        /\ p # q
        /\ proc[p].state = "running" /\ proc[q].state = "running"
        /\ LeasesIn(proc[p].leases, "t1") = 1
        /\ LeasesIn(proc[q].leases, "t1") = 1
        /\ tmpfs_manager.items["t1"].mounts = 1
        /\ tmpfs_manager.items["t1"].refs = 2

\* the SpawnServerChild of the process exists
Tracked(p) == proc[p].watcher = "child"

\* C28: the tmpfs entries of a child are pinned as long as its
\* SpawnServerChild exists: every entry resolved for a tracked child is
\* mounted and has a reference count of at least one, so Expire passes it
\* over.  The leases go with the record: when the exit is reported, when a
\* KILL names the child and when the connection is torn down, in the last two
\* cases before the process has exited.
C28_PinnedWhileTracked ==
    \A p \in Pids :
        /\ Tracked(p) =>
                \A n \in proc[p].named :
                    /\ LeasesIn(proc[p].leases, n) >= 1
                    /\ tmpfs_manager.items[n].refs >= 1
                    /\ tmpfs_manager.items[n].mounts = 1
        /\ ~Tracked(p) => proc[p].leases = <<>>

\* a tracked child still holds its tmpfs after the threshold and a firing of
\* the timer
C28_PinnedPastThreshold ==
    \E p \in Pids :
        /\ Tracked(p)
        /\ "t1" \in proc[p].named
        /\ tmpfs_manager.items["t1"].refs = 1
        /\ tmpfs_manager.items["t1"].idle > IdleThreshold + ExpirePeriod

\* C28 as stated: as long as the process has not exited (it runs, or it was
\* sent a signal and its exit has not been collected), every entry resolved
\* for it has a reference count of at least one.
C28_PinnedUntilExit ==
    \A p \in Pids :
        proc[p].state \in {"running", "killed"} =>
            \A n \in proc[p].named : tmpfs_manager.items[n].refs >= 1

\* C29: while the server has a tmpfs manager and a connection, the expire
\* timer is pending, due within one period (two minutes): each firing
\* schedules the next.  So an entry that has had no reference since its last
\* release, and no failed unmount, is never found mounted later than the
\* idle threshold and one period after that release; and only an entry
\* without a reference, idle for longer than the threshold, is ever
\* unmounted.
C29_IdleEntriesExpire ==
    /\ [] ((tmpfs_manager.present /\ connections # <<>>) =>
            /\ expire_timer.pending
            /\ expire_timer.due <= ExpirePeriod
            /\ \A n \in TmpfsNames :
                LET e == tmpfs_manager.items[n]
                IN (e.mounts > 0 /\ e.refs = 0 /\ ~e.busy) =>
                        e.idle <= IdleThreshold + ExpirePeriod)
    /\ [][\A n \in TmpfsNames :
            (tmpfs_manager.items[n].mounts > 0 /\ tmpfs_manager'.items[n].mounts = 0) =>
                /\ tmpfs_manager.items[n].refs = 0
                /\ tmpfs_manager.items[n].idle > IdleThreshold
                /\ ~tmpfs_manager.items[n].busy =>
                        tmpfs_manager.items[n].idle <= IdleThreshold + ExpirePeriod]_vars

\* the tmpfs of a child that has exited was unmounted while another tmpfs,
\* still in use, stays, and the timer is pending again
C29_ExpiredBesideUsed ==
    \E p \in Pids, q \in Pids :
        /\ connections # <<>>
        /\ expire_timer.pending
        /\ proc[p].state = "reaped" /\ proc[p].named = {"t1"}
        /\ tmpfs_manager.items["t1"].mounts = 0
        /\ Tracked(q) /\ proc[q].named = {"t2"}
        /\ tmpfs_manager.items["t2"].mounts = 1
        /\ tmpfs_manager.items["t2"].idle > IdleThreshold + ExpirePeriod

(* ------------------------------------------------ the EventLoop by itself *)

\* a program whose callbacks defer tasks, schedule idle events and timers
\* and call Break(), with up to MaxReady SocketEvents scheduled before Run()
LoopInit ==
    /\ ServerInit
    /\ \E threaded \in BOOLEAN : \E S \in {{SocketNames[i] : i \in 1..n} : n \in 0..MaxReady} :
            loop = Adding(NewLoop(threaded), S)
    /\ ElsewhereIdle

\* the loop becomes l
LoopBecomes(l) ==
    /\ loop' = l
    /\ UNCHANGED <<server, elsewhere>>

LoopHandleTimers ==
    /\ loop.pc = "top"
    /\ \/ LoopBecomes(HandleTimers(loop, FALSE, NoEffect))
       \/ \E eff \in EffectsAt(loop) : LoopBecomes(HandleTimers(loop, TRUE, eff))

LoopRunDeferred ==
    /\ loop.pc = "deferred"
    /\ \E eff \in EffectsAt(loop) : LoopBecomes(RunDeferred(loop, eff))

LoopRunOneIdle ==
    /\ loop.pc = "idle"
    /\ \E eff \in EffectsAt([loop EXCEPT !.idle = 0]) :
            LoopBecomes(RunOneIdle(loop, eff))

LoopHandleInject ==
    /\ loop.pc = "inject"
    /\ LoopBecomes(HandleInject(loop))

LoopRunInject ==
    /\ loop.pc = "inject_run"
    /\ \E eff \in EffectsAt(loop) : LoopBecomes(RunInject(loop, eff))

LoopCheckAgain ==
    /\ loop.pc = "again"
    /\ LoopBecomes(CheckAgain(loop))

LoopCheckEmpty ==
    /\ loop.pc = "empty"
    /\ \E empty \in BOOLEAN :
        /\ empty => (/\ loop.defer = <<>> /\ loop.idle = 0
                     /\ loop.sockets = <<>> /\ loop.ready = <<>>)
        /\ LoopBecomes(CheckEmpty(loop, empty))

\* the lists of events one Wait() may receive: some of the scheduled
\* events in some order, the wake event among them exactly if the wake fd
\* is readable
Receivable(l) ==
    {evs \in UNION {[1..n -> l.polled] : n \in 0..Cardinality(l.polled)} :
        /\ \A i \in DOMAIN evs, j \in DOMAIN evs : i # j => evs[i] # evs[j]
        /\ ("wake" \in InList(evs)) <=> ("wake" \in l.polled /\ l.wake)}

\* Wait() returns because the wake fd is readable
LoopWaitWoken ==
    /\ loop.pc = "waiting"
    /\ loop.wake
    /\ \E evs \in Receivable(loop) : LoopBecomes(Wait(loop, evs))

\* Wait() returns because sockets are ready or the timeout has passed
LoopWait ==
    /\ loop.pc = "waiting"
    /\ ~loop.wake
    /\ \E evs \in Receivable(loop) : LoopBecomes(Wait(loop, evs))

LoopSetBusy ==
    /\ loop.pc = "busy"
    /\ LoopBecomes(SetBusy(loop))

LoopInvokeSocket ==
    /\ loop.pc = "sockets"
    /\ \E eff \in EffectsAt(loop) : LoopBecomes(InvokeSocket(loop, eff))

LoopRunPost ==
    /\ loop.pc = "post"
    /\ \E eff \in EffectsAt(loop) : LoopBecomes(RunPost(loop, eff))

LoopCheckQuit ==
    /\ loop.pc = "cond"
    /\ LoopBecomes(CheckQuit(loop))

LoopRunAgain ==
    /\ loop.pc = "returned"
    /\ LoopBecomes(Run(loop))

\* a thread other than the loop's calls AddInject while the loop thread
\* does not hold the mutex
LoopAddInject ==
    /\ loop.threaded
    /\ ~loop.mutex
    /\ loop.pc # "returned"
    /\ loop.waking < MaxThreads
    /\ \E d \in InjectEvents :
        /\ loop.callbacks = "tasks" => (d = "i1" /\ loop.inject = <<>>)
        /\ LoopBecomes(AddInject(loop, d))

\* a thread that has left AddInject's lock writes the wake fd
LoopWakeFdWrite ==
    /\ loop.waking > 0
    /\ LoopBecomes(WakeFdWrite(loop))

LoopNext ==
    \/ LoopHandleTimers
    \/ LoopRunDeferred
    \/ LoopRunOneIdle
    \/ LoopHandleInject
    \/ LoopRunInject
    \/ LoopCheckAgain
    \/ LoopCheckEmpty
    \/ LoopWaitWoken
    \/ LoopWait
    \/ LoopSetBusy
    \/ LoopInvokeSocket
    \/ LoopRunPost
    \/ LoopCheckQuit
    \/ LoopRunAgain
    \/ LoopAddInject
    \/ LoopWakeFdWrite

LoopSpec == LoopInit /\ [][LoopNext]_vars

\* C30: a task deferred by a callback is not run by the step that schedules
\* it (it is run after the callback has returned), execution order is that
\* of scheduling, and whenever the loop blocks in Wait() the defer list is
\* empty and every task ever scheduled has been run, unless quit is set.
C30_DeferredBeforeWait ==
    /\ [] ((loop.pc = "waiting" /\ ~loop.quit) =>
            /\ loop.defer = <<>>
            /\ loop.ran = 1..loop.scheduled)
    /\ [][/\ \A t \in 1..MaxTasks : t > loop.scheduled => t \notin loop'.ran
          /\ \A t \in loop'.ran \ loop.ran : loop.defer # <<>> /\ t = Head(loop.defer)]_vars

\* the loop blocks, every task the callbacks have scheduled having been run
C30_AllRunThenBlocked ==
    /\ loop.pc = "waiting"
    /\ ~loop.quit
    /\ loop.scheduled = MaxTasks
    /\ loop.ran = 1..MaxTasks

(* ---------------------------------------------- EnableAllControllers alone *)

\* texts that cgroup.controllers may hold: up to three different names,
\* one or two spaces between them, with or without the newline
RECURSIVE Joined(_, _)
Joined(names, sep) ==
    IF names = <<>> THEN <<>>
    ELSE IF Len(names) = 1 THEN Text(names[1])
    ELSE Text(names[1]) \o sep \o Joined(Tail(names), sep)

NameLists ==
    {ns \in UNION {[1..n -> Controllers] : n \in 0..3} :
        \A i \in DOMAIN ns, j \in DOMAIN ns : i # j => ns[i] # ns[j]}

ControllerFiles ==
    {Joined(ns, sep) \o nl :
        ns \in NameLists, sep \in {<<" ">>, <<" ", " ">>}, nl \in {<<>>, <<"\n">>}}

\* the file operations of EnableAllControllers, by path
CgroupPaths ==
    {"_", "cgroup.procs", "cgroup.subtree_control", "cpu.weight", "io.weight",
     "io.bfq.weight"}

CgroupInit ==
    /\ ServerInit
    /\ loop = NewLoop(FALSE)
    /\ \E contents \in ControllerFiles, failing \in CgroupPaths \cup {"none"} :
        cgroup = [NoCgroup EXCEPT !.contents = contents, !.failing = failing]
    /\ list = NewList

\* the server calls EnableAllControllers at startup
CgroupEnable ==
    /\ ~cgroup.done
    /\ cgroup' = EnableAllControllers(cgroup)
    /\ UNCHANGED <<server, loop, list>>

CgroupNext == CgroupEnable

CgroupSpec == CgroupInit /\ [][CgroupNext]_vars

\* the names that the text of cgroup.controllers advertises
Advertised(contents) ==
    {n \in Controllers : \E i \in 1..Len(contents) : contents[i] = n}

\* where in the operations done the path was operated on (0: nowhere)
OpAt(g, path) ==
    IF \E i \in 1..Len(g.ops) : g.ops[i].path = path
    THEN CHOOSE i \in 1..Len(g.ops) : g.ops[i].path = path
    ELSE 0

\* C31: EnableAllControllers makes the leaf group "_" and writes the
\* process into its cgroup.procs before it writes cgroup.subtree_control;
\* the text written has "+c" exactly once for every advertised controller c
\* other than cpuset, in the order advertised and separated by one space,
\* and never cpuset; if making the leaf, moving the process or writing
\* subtree_control fails, an exception is thrown and nothing further is
\* done, while a failing weight write changes nothing.
C31_LeafThenSubtreeControl ==
    cgroup.done =>
        LET g == cgroup
            sc == OpAt(g, "cgroup.subtree_control")
        IN /\ sc # 0 =>
                /\ OpAt(g, "_") = 1 /\ g.ops[1].call = "MakeDirectory"
                /\ OpAt(g, "cgroup.procs") = 2 /\ g.ops[2].group = "_"
                /\ sc = 3
                /\ \A c \in Controllers \ {"cpuset"} :
                    Cardinality({i \in 1..Len(g.ops[3].data) : g.ops[3].data[i] = c})
                        = (IF c \in Advertised(g.contents) THEN 1 ELSE 0)
                /\ \A i \in 1..Len(g.ops[3].data) :
                    /\ g.ops[3].data[i] # "cpuset"
                    /\ g.ops[3].data[i] \in Controllers => (i > 1 /\ g.ops[3].data[i - 1] = "+")
                    /\ g.ops[3].data[i] = " " =>
                            (i > 1 /\ g.ops[3].data[i - 1] \in Controllers
                             /\ i < Len(g.ops[3].data))
           /\ g.thrown <=> g.failing \in {"_", "cgroup.procs", "cgroup.subtree_control"}
           /\ g.thrown => g.ops[Len(g.ops)].path = g.failing
           /\ ~g.thrown => Len(g.ops) = 6

\* cpuset is advertised between two others with two spaces in between, the
\* write of io.weight fails, and all six operations were done
C31_CpusetSkipped ==
    /\ cgroup.done
    /\ cgroup.contents = <<"cpu", " ", " ", "cpuset", " ", " ", "io", "\n">>
    /\ cgroup.failing = "io.weight"
    /\ ~cgroup.thrown
    /\ cgroup.ops[3].data = <<"+", "cpu", " ", "+", "io">>

(* ------------------------------------------------- the IntrusiveList test *)

ListInit ==
    /\ ServerInit
    /\ loop = NewLoop(FALSE)
    /\ cgroup = NoCgroup
    /\ list = NewList

ListBecomes(l) ==
    /\ list' = l
    /\ UNCHANGED <<server, loop, cgroup>>

\* list.push_back(item) or list.push_front(item), for an item in no list
ListPush ==
    \E h \in Lists, i \in CharItems :
        /\ list.alive[h]
        /\ ~is_linked(list, i)
        /\ \/ ListBecomes(push_back(list, h, i))
           \/ ListBecomes(push_front(list, h, i))

\* item.unlink() or list.erase(list.iterator_to(item)), for an item in a list
ListUnlink ==
    \E i \in CharItems :
        /\ is_linked(list, i)
        /\ \/ ListBecomes(unlink(list, i))
           \/ ListBecomes(erase(list, i))

\* list.clear()
ListClear ==
    \E h \in Lists :
        /\ list.alive[h]
        /\ ListBecomes(clear(list, h))

\* the block of list2 is entered
ListConstruct ==
    /\ ~list.alive["list2"]
    /\ ListBecomes(construct(list, "list2"))

\* the block of list2 is left
ListDestruct ==
    /\ list.alive["list2"]
    /\ ListBecomes(destruct(list, "list2"))

ListNext ==
    \/ ListPush
    \/ ListUnlink
    \/ ListClear
    \/ ListConstruct
    \/ ListDestruct

ListSpec == ListInit /\ [][ListNext]_vars

\* the items of a list from begin() to end(): those met before the first "_"
RECURSIVE UpToEnd(_)
UpToEnd(str) ==
    IF str = <<>> \/ Head(str) = "_" THEN <<>> ELSE <<Head(str)>> \o UpToEnd(Tail(str))

ItemsOf(l, h) ==
    IF l.alive[h] THEN UpToEnd(ToStringForward(l, h, l.node[h].next, Cardinality(CharItems) + 1))
    ELSE <<>>

\* the sequence without the item

\* the sequence read backwards
Reversed(str) == [k \in 1..Len(str) |-> str[Len(str) + 1 - k]]

\* C32: an item with a SafeLink hook is linked exactly while it is a member
\* of a list that exists; a step that takes one item out of a list (unlink,
\* erase) leaves each list with its other items in the order they had; a
\* step that clears or destroys a list leaves the other list as it was; and
\* iterating from begin() meets the items, then end(), then the first item
\* again, and backwards the same in reverse.
C32_LinkedIffMember ==
    /\ [] (\A i \in CharItems :
            is_linked(list, i) <=>
                \E h \in Lists : \E k \in 1..Len(ItemsOf(list, h)) : ItemsOf(list, h)[k] = i)
    /\ [] (\A h \in Lists : list.alive[h] =>
            LET its == ItemsOf(list, h)
                n == Len(its)
                begin == list.node[h].next
            IN /\ ToStringForward(list, h, begin, n + 2)
                    = its \o <<"_">> \o (IF n = 0 THEN <<"_">> ELSE <<its[1]>>)
               /\ ToStringReverse(list, h, begin, n + 2)
                    = IF n = 0 THEN <<"_", "_">> ELSE <<its[1], "_">> \o Reversed(its))
    /\ [][LET gone == {i \in CharItems : is_linked(list, i) /\ ~is_linked(list', i)}
          IN gone # {} =>
                \A h \in Lists :
                    ItemsOf(list', h) = SelectSeq(ItemsOf(list, h), LAMBDA x : x \notin gone)]_vars

\* b was unlinked from between a and c: a and c are linked and b is not,
\* and the list reads "ac_a"
C32_MiddleUnlinked ==
    /\ ToStringForward(list, "list", list.node["list"].next, 4) = <<"a", "c", "_", "a">>
    /\ is_linked(list, "a") /\ is_linked(list, "c") /\ ~is_linked(list, "b")

\* C33: when the pidfd watcher of a registered child reports the exit with a
\* status, the record leaves the map of its connection and is destroyed (its
\* pidfd closed, its leases given back to their tmpfs entries), and exactly
\* one EXIT with the id of the record and the status as reported is put on
\* the exit queue of that connection; nothing else is queued anywhere.
C33_RecordGoneThenOneExit ==
    \A p \in Pids : (proc[p].state = "zombie" /\ proc[p].watcher = "child") =>
        \A status \in Statuses :
            LET c == proc[p].conn
                id == proc[p].id
                s1 == OnChildProcessExit(State, c, id, status, p)
                q1 == s1.conn[c].exit_queue
            IN /\ p \in conn[c].children
               /\ s1.conn[c].children = conn[c].children \ {p}
               /\ Find(s1, c, id) = Find(State, c, id) \ {p}
               /\ s1.proc[p].leases = <<>>
               /\ s1.open_fds = open_fds \ {Fd("pidfd", p)}
               /\ \A n \in TmpfsNames :
                    s1.tmpfs_manager.items[n].refs
                        = tmpfs_manager.items[n].refs - LeasesIn(proc[p].leases, n)
               /\ Len(q1) = Len(conn[c].exit_queue) + 1
               /\ Tail(q1) = conn[c].exit_queue
               /\ Head(q1).id = id /\ Head(q1).status = status /\ Head(q1).req = p
               /\ s1.conn[c].exec_complete_queue = conn[c].exec_complete_queue
               /\ s1.conn[c].write
               /\ \A c2 \in Sockets \ {c} : s1.conn[c2] = conn[c2]
               /\ s1.wire = wire
               /\ s1.connections = connections

\* a child that held a lease was killed by a SIGTERM from elsewhere: its
\* record is gone, its lease is back and the EXIT with that status is queued
C33_ExitWithStatusQueued ==
    \E p \in Pids :
        /\ proc[p].state = "reaped" /\ proc[p].sig = 0
        /\ p \notin conn[proc[p].conn].children
        /\ proc[p].leases = <<>>
        /\ tmpfs_manager.items["t1"].mounts = 1
        /\ tmpfs_manager.items["t1"].refs = 0
        /\ \E x \in Items(conn[proc[p].conn].exit_queue) :
            x.req = p /\ x.status = SIGTERM

\* C34: the child map of a connection holds at most one record per request
\* id, whatever EXEC, KILL and exit events there were.
C34_OneRecordPerId ==
    \A c \in Sockets : \A id \in Ids : Cardinality(Find(State, c, id)) <= 1

\* C35: an EXEC message with an RLIMIT field whose index byte is not below
\* the size of the rlimit table is malformed and changes nothing, and the
\* parser never writes an rlimit entry outside the table.
C35_RlimitIndexChecked ==
    \A c \in Sockets : (IsLive(State, c) /\ next_pid <= MaxExec) =>
        \A m \in AnyRlimitMsgs :
            LET st == ParseExec(Received(m))
                outside == \E i \in 1..Len(m.fields) :
                                /\ m.fields[i].tag = "RLIMIT"
                                /\ m.fields[i].index >= RLIM_NLIMITS
            IN /\ st.ub = "none"
               /\ st.p.rlimits \subseteq 0..(RLIM_NLIMITS - 1)
               /\ outside =>
                    /\ st.bad
                    /\ ReceiveAndHandle(State, c, "msg", m, GoodEnv) = State

\* C36: a child record's pidfd watcher reports only to a connection that
\* exists and has the record in its map; a connection that was removed has
\* no records and no queues left, its children having been handed to the
\* registry with their watchers; and the step in which the registry takes
\* the exit of such a child queues nothing on any connection and writes
\* nothing to any socket.
C36_NothingForRemoved ==
    /\ [] (\A p \in Pids :
            /\ proc[p].watcher = "child" =>
                /\ IsLive(State, proc[p].conn)
                /\ p \in conn[proc[p].conn].children
            /\ proc[p].state = "killed" => proc[p].watcher = "registry")
    /\ [] (\A c \in Sockets : ~IsLive(State, c) =>
            /\ conn[c] = NoConnection
            /\ wire[c] = NoWire
            /\ \A p \in Pids : proc[p].conn = c => proc[p].watcher # "child")
    /\ [][\A p \in Pids :
            (proc[p].watcher = "registry" /\ proc[p].state = "killed"
                /\ proc'[p].state = "reaped") =>
                /\ conn' = conn
                /\ wire' = wire
                /\ connections' = connections]_vars

\* a connection with a child was removed while another connection is open,
\* and the child, killed at the teardown, has since been reaped by the
\* registry
C36_ReapedAfterTeardown ==
    \E p \in Pids :
        /\ proc[p].state = "reaped"
        /\ proc[p].watcher = "registry"
        /\ proc[p].sig = SIGTERM
        /\ proc[p].conn \in Sockets
        /\ ~IsLive(State, proc[p].conn)
        /\ connections # <<>>

(* -------------------------------------- servers with and without a manager *)

\* The constructor of a SpawnServerProcess: with a mount namespace the tmpfs
\* manager is made and the expire timer scheduled, without one neither.
LeaseInit ==
    /\ connections = <<1>>
    /\ conn = [c \in Sockets |-> IF c = 1 THEN [NoConnection EXCEPT !.read = TRUE]
                                 ELSE NoConnection]
    /\ proc = [p \in Pids |-> NoProcess]
    /\ next_pid = 1
    /\ next_socket = 2
    /\ wire = [c \in Sockets |-> NoWire]
    /\ quit = FALSE
    /\ open_fds = {Fd("socket", 1)}
    /\ \E has_mount_namespace \in BOOLEAN :
        /\ tmpfs_manager = [NoTmpfsManager EXCEPT !.present = has_mount_namespace]
        /\ expire_timer = IF has_mount_namespace
                          THEN [pending |-> TRUE, due |-> ExpirePeriod] ELSE NoTimer
    /\ loop = NewLoop(FALSE)
    /\ ElsewhereIdle

LeaseSpec == LeaseInit /\ [][TmpfsNext]_vars

\* the EXECs of TmpfsMsgs, and one with a mount that has a source descriptor
\* between two NAMED_TMPFS
LeaseMsgs ==
    {m \in TmpfsMsgs : m.cmd = "EXEC"}
    \cup {[Msg("EXEC") EXCEPT !.id = 7, !.nfds = 1,
                              !.fields = <<NamedTmpfs("t2"), Field("FD_BIND_MOUNT"),
                                           NamedTmpfs("t1")>>]}

\* the sources of the mounts that PrepareNamedTmpfs is to resolve, the last
\* one first
RECURSIVE ToResolve(_)
ToResolve(mounts) ==
    IF mounts = <<>> THEN <<>>
    ELSE ToResolve(Tail(mounts))
            \o (IF Head(mounts).type = "MOUNT_NAMED_TMPFS" /\ ~Head(mounts).source_fd
                THEN <<Head(mounts).source>> ELSE <<>>)

\* C37: an EXEC whose SpawnChild fails, before or after its NAMED_TMPFS
\* mounts were resolved, leaves no child record and no lease behind, each
\* tmpfs entry having the reference count it had before; an EXEC that
\* succeeds holds one lease for each NAMED_TMPFS mount without a source
\* descriptor if the server has a tmpfs manager, and none, no tmpfs being
\* made either, if it has not.
C37_FailedSpawnReleasesLeases ==
    \A c \in Sockets : (IsLive(State, c) /\ next_pid <= MaxExec) =>
        \A m \in LeaseMsgs : \A env \in Envs :
            LET prep == ParseExec(Received(m)).p
                s1 == ReceiveAndHandle(State, c, "msg", m, env)
                p == next_pid
            IN /\ ~ParseExec(Received(m)).bad
               /\ SpawnThrows(prep, env) =>
                    /\ s1.conn[c].children = conn[c].children
                    /\ s1.proc[p].leases = <<>>
                    /\ s1.proc[p].state = "unused"
                    /\ \A n \in TmpfsNames :
                        s1.tmpfs_manager.items[n].refs = tmpfs_manager.items[n].refs
               /\ ~SpawnThrows(prep, env) =>
                    /\ s1.conn[c].children = conn[c].children \cup {p}
                    /\ s1.proc[p].leases
                        = IF tmpfs_manager.present THEN ToResolve(prep.mounts) ELSE <<>>
                    /\ \A n \in TmpfsNames :
                        s1.tmpfs_manager.items[n].refs
                            = tmpfs_manager.items[n].refs + LeasesIn(s1.proc[p].leases, n)
               /\ ~tmpfs_manager.present => s1.tmpfs_manager = tmpfs_manager

\* an EXEC with a NAMED_TMPFS has failed in SpawnChildProcess: its tmpfs was
\* made and is mounted, nothing refers to it and there is no child
C37_MountedButUnreferenced ==
    /\ next_pid = 2
    /\ proc[1].state = "unused"
    /\ \A c \in Sockets : conn[c].children = {}
    /\ tmpfs_manager.items["t1"].mounts = 1
    /\ tmpfs_manager.items["t1"].refs = 0
    /\ \E c \in Sockets : \E x \in Items(conn[c].exit_queue) :
            x.req = 1 /\ x.status = SpawnFailedStatus

\* the socket events of ready_sockets other than the wake event
ReadyOthers(l) == ListWithout(l.ready, {"wake"})

\* C38: Run() returns only with quit set or, from the point where it would
\* wait, with no event registered; while quit is set and Run() has not
\* returned, no step runs a deferred task, an idle event, an InjectEvent or
\* a socket callback; the events left in ready_sockets at the return are
\* still there when Run() is called again, and Wait() is only ever called
\* with ready_sockets empty, every event that was left over having been
\* dispatched by then.
C38_ReturnsOnQuitOrEmpty ==
    /\ [][(loop.pc # "returned" /\ loop'.pc = "returned") =>
            \/ loop.quit \/ loop'.quit
            \/ /\ loop.pc = "empty"
               /\ loop.defer = <<>> /\ loop.idle = 0
               /\ loop.sockets = <<>> /\ loop.ready = <<>>]_vars
    /\ [][(loop.quit /\ loop.pc # "returned") =>
            /\ loop'.ran = loop.ran
            /\ SubSeq(loop'.defer, 1, Len(loop.defer)) = loop.defer
            /\ loop'.idle >= loop.idle
            /\ loop'.inject = loop.inject \/ loop'.inject = Append(loop.inject, "i1")
            /\ loop'.running = "none"
            /\ ReadyOthers(loop') = ReadyOthers(loop) \/ loop.pc = "waiting"
            /\ loop'.last = loop.last]_vars
    /\ [][(loop.pc = "returned" /\ loop'.pc # "returned") =>
            /\ loop'.ready = loop.ready
            /\ ~loop'.quit]_vars
    /\ [] (loop.pc = "waiting" => (loop.ready = <<>> /\ loop.leftover \subseteq loop.redone))

\* Run() returned after Break() in the callback of s1 with s2 left in
\* ready_sockets, was called again and has dispatched s2, no Wait() having
\* been called since
C38_LeftoverDispatched ==
    /\ loop.leftover = {"s2"}
    /\ loop.redone = {"s2"}
    /\ loop.last = "s2"
    /\ loop.pc = "sockets"
    /\ ~loop.quit

(* ------------------------------------------------- SocketEvents come and go *)

\* a program whose callbacks schedule, cancel and abandon SocketEvents and
\* call Break(); both events are scheduled before Run()
SocketInit ==
    /\ ServerInit
    /\ loop = [Adding(NewLoop(FALSE), SocketEvents) EXCEPT !.callbacks = "sockets"]
    /\ ElsewhereIdle

SocketNext ==
    \/ LoopHandleTimers
    \/ LoopRunDeferred
    \/ LoopRunOneIdle
    \/ LoopCheckAgain
    \/ LoopCheckEmpty
    \/ LoopWait
    \/ LoopInvokeSocket
    \/ LoopRunPost
    \/ LoopCheckQuit
    \/ LoopRunAgain

SocketSpec == SocketInit /\ [][SocketNext]_vars

\* how often the event is in the list
TimesIn(q, e) == Cardinality({i \in 1..Len(q) : q[i] = e})

\* C39: every SocketEvent registered with the poll backend is in exactly
\* one of the lists sockets and ready_sockets, once, and nothing else is in
\* them; Wait() puts every event it receives into ready_sockets and leaves
\* the others where they are; a dispatch takes the first event of
\* ready_sockets, which is registered and goes to sockets before its
\* callback runs, and an event that a callback cancels or abandons is in
\* neither list afterwards, so that it is not dispatched unless it is
\* scheduled anew.
C39_OneListPerSocketEvent ==
    /\ [] (\A e \in SocketEvents \cup {"wake"} :
            TimesIn(loop.sockets, e) + TimesIn(loop.ready, e)
                = IF e \in loop.polled THEN 1 ELSE 0)
    /\ [][(loop.pc = "waiting" /\ loop'.pc # "waiting") =>
            /\ InList(loop'.ready) \cup InList(loop'.sockets) = InList(loop.sockets)
            /\ loop'.sockets = ListWithout(loop.sockets, InList(loop'.ready))]_vars
    /\ [][(loop.pc = "sockets" /\ loop'.pc = "sockets") =>
            /\ loop.ready # <<>>
            /\ loop'.last = Head(loop.ready)
            /\ loop'.last \in loop.polled
            /\ \A e \in InList(loop.ready) \ InList(loop'.ready) :
                    \/ e = loop'.last /\ (e \in loop'.polled => e \in InList(loop'.sockets))
                    \/ e \notin loop'.polled
            /\ \A e \in InList(Tail(loop.ready)) \cap InList(loop'.ready) :
                    e \in loop'.polled]_vars
    /\ [][\A e \in SocketEvents :
            (e \in loop.polled /\ e \notin loop'.polled) =>
                e \notin InList(loop'.ready) \cup InList(loop'.sockets)]_vars

\* Wait() received s1 and s2; the callback of s1 cancelled s2, which waited
\* in ready_sockets: nothing is left for the socket loop to dispatch
C39_CancelledWhileReady ==
    /\ loop.pc = "sockets"
    /\ loop.received = <<"s1", "s2">>
    /\ loop.last = "s1"
    /\ loop.polled = {"s1"}
    /\ loop.sockets = <<"s1">>
    /\ loop.ready = <<>>
    /\ ~loop.quit

(* ------------------------------------------- InjectEvents from other threads *)

\* the threaded build, with callbacks that call Break() or do nothing to
\* the loop, and threads that add the InjectEvents again and again
InjectInit ==
    /\ ServerInit
    /\ loop = [NewLoop(TRUE) EXCEPT !.callbacks = "inject"]
    /\ ElsewhereIdle

InjectNext ==
    \/ LoopHandleTimers
    \/ LoopRunDeferred
    \/ LoopRunOneIdle
    \/ LoopHandleInject
    \/ LoopRunInject
    \/ LoopCheckAgain
    \/ LoopCheckEmpty
    \/ LoopWaitWoken
    \/ LoopWait
    \/ LoopSetBusy
    \/ LoopInvokeSocket
    \/ LoopRunPost
    \/ LoopCheckQuit
    \/ LoopRunAgain
    \/ LoopAddInject
    \/ LoopWakeFdWrite

\* The loop thread goes on as long as it is not blocked in Wait(), which
\* returns if the wake fd is readable, and a thread that has queued an
\* InjectEvent goes on to write the wake fd.  Nothing makes a timeout pass,
\* another thread call AddInject, or the owner call Run() again.
InjectSpec ==
    /\ InjectInit
    /\ [][InjectNext]_vars
    /\ WF_vars(LoopHandleTimers) /\ WF_vars(LoopRunDeferred) /\ WF_vars(LoopRunOneIdle)
    /\ WF_vars(LoopHandleInject) /\ WF_vars(LoopRunInject) /\ WF_vars(LoopCheckAgain)
    /\ WF_vars(LoopCheckEmpty) /\ WF_vars(LoopWaitWoken) /\ WF_vars(LoopSetBusy)
    /\ WF_vars(LoopInvokeSocket) /\ WF_vars(LoopRunPost) /\ WF_vars(LoopCheckQuit)
    /\ WF_vars(LoopWakeFdWrite)

\* C40: in the threaded build, whatever the interleaving of AddInject calls
\* with the loop thread: an InjectEvent that is queued is run by the loop
\* thread or the loop quits; whenever the loop is about to block in Wait()
\* with an InjectEvent queued, the wake fd is readable or about to be
\* written, unless quit is set; no InjectEvent is in the queue twice; and
\* while the callback of an InjectEvent runs the loop thread does not hold
\* the mutex.
C40_InjectedIsRun ==
    /\ \A d \in InjectEvents :
        (d \in InList(loop.inject)) ~> (loop.running = d \/ loop.quit)
    /\ [] ((loop.pc = "waiting" /\ loop.inject # <<>> /\ ~loop.quit) =>
            (loop.wake \/ loop.waking > 0))
    /\ [] (\A d \in InjectEvents : TimesIn(loop.inject, d) <= 1)
    /\ [] (loop.running # "none" => (~loop.mutex /\ loop.pc = "inject_run"))
    /\ [] (loop.pc \in {"inject", "again"} => loop.mutex)

\* the loop was blocked in Wait() when a thread queued i1 and wrote the
\* wake fd; the wake event was dispatched and the callback of i1 is running
\* with the mutex unlocked, while i2 has been queued behind it
C40_WokenAndRunning ==
    /\ loop.running = "i1"
    /\ loop.ret = "sockets"
    /\ loop.last = "wake"
    /\ loop.received = <<"wake">>
    /\ loop.inject = <<"i2">>
    /\ ~loop.mutex
    /\ ~loop.wake

====
